---- MODULE Spec2Model ----
(***************************************************************************)
(* A model of the pillow-cli image tool: the command dispatcher main(),    *)
(* PillowCLI.process_image, BatchProcessor.process_directory, the sepia    *)
(* pixel loop, analyze_histogram and extract_color_palette.                *)
(***************************************************************************)
EXTENDS Integers, Sequences, FiniteSets, TLC

(***************************************************************************)
(* Bounds of the model.                                                    *)
(***************************************************************************)
MaxFiles == 3      \* directory entries of a batch run
MaxPixels == 4     \* pixels of an image (width * height)
GridSteps == 15    \* channel levels of the single-pixel images, minus one
MaxAnalysed == 4   \* pixels of the array the palette is extracted from
MaxK == 4          \* num_colors
MaxItems == 5      \* images of a collage or contact sheet
MaxCols == 3       \* cols of a collage
MaxPadding == 2    \* padding of a collage, margin of a contact sheet
MaxSheetWidth == 16 \* sheet_width
MaxCrop == 3       \* x, y, width and height of a crop
MaxVigSide == 5    \* width and height of the images a vignette is applied to

(***************************************************************************)
(* Part 1.  main(), process_image and the batch loop.                      *)
(***************************************************************************)
VARIABLES
    pc,               \* where main()/process_directory stands
    caller,           \* "main" (the CLI) or "api" (process_directory called directly)
    command,          \* args.command
    operation,        \* the batch operation
    kwargsOK,         \* whether the processor accepts the keyword arguments
    dirExists,        \* input_path.exists()
    dirListing,       \* the entries of the input directory, by name
    outDirMade,       \* output_path.mkdir() has run
    image_files,      \* the result of _find_image_files
    idx,              \* position of the for loop in image_files (1-based)
    processed_count,  \* processed_count
    attempts,         \* how often process_func was called on each name
    failureOccurred,  \* an exception was raised somewhere during the command
    raisedExc,        \* the exception that escaped to main(), or "none"
    raisedNames,      \* the names whose processing raised inside the loop
    loopEntered,      \* the for loop of process_directory was reached
    printed,          \* the messages printed, in order
    exitCode          \* the exit code of the process, or -1 while it runs

cliVars == <<pc, caller, command, operation, kwargsOK, dirExists, dirListing,
             outDirMade, image_files, idx, processed_count, attempts,
             failureOccurred, raisedExc, raisedNames, loopEntered, printed,
             exitCode>>

\* The image a pixel routine works on, and the loop of _apply_sepia.
VARIABLES
    imgW, imgH,       \* image.width, image.height
    imgPixels,        \* the pixel buffer of the image the routine works on
    imgOrig,          \* the pixel buffer as it was when the routine was called
    sx, sy,           \* the loop variables x and y of _apply_sepia
    sepPc             \* "idle", "loop" or "done"

imgVars == <<imgW, imgH, imgPixels, imgOrig>>
sepVars == <<sx, sy, sepPc>>

\* analyze_histogram.
VARIABLES
    histPc,           \* "idle", "start" or "done"
    histogram_data,   \* the dictionary returned, or NoData
    histAvg,          \* avg_r, avg_g, avg_b as <<numerator, denominator>> pairs
    histError,        \* the exception raised, or "none"
    histSaved         \* json.dump wrote histogram_data to output_path

histVars == <<histPc, histogram_data, histAvg, histError, histSaved>>

\* extract_color_palette.
VARIABLES
    palPixels,        \* pixels
    num_colors,       \* num_colors
    sklearnAvailable, \* whether `from sklearn.cluster import KMeans` succeeds
    palPc,            \* "idle", "start", "count" or "done"
    palPos,           \* position of `for pixel in pixels` (1-based)
    unique_colors,    \* the dict unique_colors, its items in insertion order
    cluster_centers,  \* kmeans.cluster_centers_, in tenths
    palPath,          \* "none", "kmeans" or "frequency"
    palResult,        \* the list returned
    palError          \* the exception that left the function, or "none"

palVars == <<palPixels, num_colors, sklearnAvailable, palPc, palPos,
             unique_colors, cluster_centers, palPath, palResult, palError>>

\* create_collage and create_contact_sheet.
VARIABLES
    layPc,            \* where the call stands: "idle", "start", "collage",
                      \* "collage_paste", "sheet", "sheet_paste", "returned", "done"
    layKind,          \* "collage" or "sheet"
    layCaller,        \* "cli" (through PillowCLI) or "direct" (the creator class)
    layInput,         \* the sizes <<width, height>> of the images passed in
    laySizes,         \* the sizes of those image objects now
    cols,             \* cols
    padding,          \* padding (collage)
    sheet_width,      \* sheet_width (contact sheet)
    margin,           \* margin (contact sheet)
    rows,             \* rows
    cellW, cellH,     \* max_width, max_height / thumb_width, thumb_height
    canvasW, canvasH, \* the size of the image created by Image.new
    layI,             \* the loop variable i of enumerate(...)
    pastes,           \* the boxes [x, y, w, h] pasted so far, in order
    layError,         \* the exception that left the call, or "none"
    layArith,         \* some layout arithmetic has been evaluated
    layOutput         \* save_image has written the output file

layVars == <<layPc, layKind, layCaller, layInput, laySizes, cols, padding,
             sheet_width, margin, rows, cellW, cellH, canvasW, canvasH, layI,
             pastes, layError, layArith, layOutput>>

\* VignetteProcessor.process, on the image of imgVars.
VARIABLES
    vigPc,            \* "idle", "start", "loop", "composite" or "done"
    strength,         \* strength, in halves: 0, 1, 2 stand for 0.0, 0.5, 1.0
    vigI,             \* the loop variable i
    mask,             \* the pixels of mask (mode L), indexed as imgPixels
    vigResult         \* the pixels <<r, g, b, a>> of result

vigVars == <<vigPc, strength, vigI, mask, vigResult>>

\* One call of a processor or of load_image.
VARIABLES
    procPc,           \* "idle", "start" or "done"
    procOp,           \* "effect", "filter", "watermark", "crop", "load" or "none"
    procName,         \* the effect, filter_type or position passed
    cropArgs,         \* <<x, y, width, height>> passed to CropProcessor.process
    cropBox,          \* the box passed to image.crop, or <<>>
    loadFile,         \* the file at the path passed to load_image
    procCalls,        \* the library calls made, in order
    procError,        \* the exception that left the call, or "none"
    procListed        \* the names the message of the exception lists

procVars == <<procPc, procOp, procName, cropArgs, cropBox, loadFile,
              procCalls, procError, procListed>>

\* PillowCLI.process_image and save_image on one file.
VARIABLES
    piPc,             \* "idle", "start", "load", "process", "save", "flatten",
                      \* "encode" or "done"
    piFile,           \* the file at input_path
    piName,           \* processor_name
    piArgsOK,         \* whether the processor accepts the keyword arguments
    format_type,      \* format_type (of the processor "format")
    outSuffix,        \* the suffix of output_path
    srcMode,          \* the mode of the image in the file
    srcPixel,         \* a pixel of it, as <<level, alpha>> (alpha 255 in a
                      \* mode without alpha)
    resMode,          \* the mode of the image the processor returned
    resPixel,         \* that pixel of it
    encMode,          \* the mode of the image handed to image.save
    encPixel,         \* that pixel of it
    piError,          \* the exception that left process_image, or "none"
    piCalls           \* the calls made, in order

piVars == <<piPc, piFile, piName, piArgsOK, format_type, outSuffix, srcMode,
            srcPixel, resMode, resPixel, encMode, encPixel, piError, piCalls>>

\* EffectProcessor.process with the effect 'sepia', around the loop of
\* _apply_sepia.
VARIABLES
    callerPixels,     \* the pixel buffer of the image object passed to process,
                      \* while it is another object than the one of imgPixels
    aliased,          \* the image _apply_sepia works on is the object passed
                      \* to process
    pass              \* how many times the effect has been called

effVars == <<callerPixels, aliased, pass>>

\* ResizeProcessor.process.
VARIABLES
    rszPc,            \* "idle", "start" or "done"
    original_width,   \* original_width
    original_height,  \* original_height
    reqW, reqH,       \* the arguments width and height, 0 for None
    maintain_aspect,  \* maintain_aspect
    new_size,         \* new_size
    rszError          \* the exception that left the call, or "none"

rszVars == <<rszPc, original_width, original_height, reqW, reqH,
             maintain_aspect, new_size, rszError>>

\* PillowGUI.apply_operation_to_image.
VARIABLES
    guiPc,            \* "idle", "start" or "done"
    guiOperation,     \* operation
    for_preview,      \* for_preview
    guiParamsOK,      \* whether get_operation_parameters can parse the fields
    guiKey,           \* the key looked up in self.cli.processors, or "none"
    guiCalls,         \* the calls made, in order
    guiError          \* the exception that left the call, or "none"

guiVars == <<guiPc, guiOperation, for_preview, guiParamsOK, guiKey, guiCalls,
             guiError>>

vars == <<cliVars, imgVars, sepVars, histVars, palVars, layVars, vigVars,
    procVars, piVars, effVars, rszVars, guiVars>>
notCli == <<imgVars, sepVars, histVars, palVars, layVars, vigVars, procVars,
    piVars, effVars, rszVars, guiVars>>
notSepia == <<cliVars, histVars, palVars, layVars, vigVars, procVars, piVars,
    effVars, rszVars, guiVars>>
notHist == <<cliVars, sepVars, palVars, layVars, vigVars, procVars, piVars,
    effVars, rszVars, guiVars>>
notPal == <<cliVars, imgVars, sepVars, histVars, layVars, vigVars, procVars,
    piVars, effVars, rszVars, guiVars>>
notLay == <<cliVars, imgVars, sepVars, histVars, palVars, vigVars, procVars,
    piVars, effVars, rszVars, guiVars>>
notVig == <<cliVars, sepVars, histVars, palVars, layVars, procVars, piVars,
    effVars, rszVars, guiVars>>
notProc == <<cliVars, sepVars, histVars, palVars, layVars, vigVars, piVars,
    effVars, rszVars, guiVars>>
notPi == <<cliVars, imgVars, sepVars, histVars, palVars, layVars, vigVars,
    procVars, effVars, rszVars, guiVars>>
notEff == <<cliVars, histVars, palVars, layVars, vigVars, procVars, piVars,
    rszVars, guiVars>>
notRsz == <<cliVars, imgVars, sepVars, histVars, palVars, layVars, vigVars,
    procVars, piVars, effVars, guiVars>>
notGui == <<cliVars, sepVars, histVars, palVars, layVars, vigVars, procVars,
    piVars, effVars, rszVars>>

\* PillowCLI.supported_formats and BatchProcessor.supported_extensions.
supported_formats == {".jpg", ".jpeg", ".png", ".bmp", ".gif", ".tiff", ".webp"}

\* The keys of PillowCLI.processors.
processors == {"resize", "filter", "adjust", "crop", "rotate", "flip", "format",
               "thumbnail", "watermark", "effect", "border", "vignette"}

\* The keys of operation_map in process_directory, with the processor each
\* mapped method hands to process_image.
operation_map == [resize |-> "resize", filter |-> "filter", adjust |-> "adjust",
                  effect |-> "effect", thumbnail |-> "thumbnail"]

\* The subcommands of main() that run process_image once, with their processor.
SingleCommands == [resize |-> "resize", filter |-> "filter", adjust |-> "adjust",
                   crop |-> "crop", rotate |-> "rotate", flip |-> "flip",
                   convert |-> "format", thumbnail |-> "thumbnail",
                   watermark |-> "watermark", effect |-> "effect"]

\* The suffixes the model draws file names from, and str.lower() on them.
Suffixes == {".jpg", ".PNG", ".txt"}
Lower(s) == CASE s = ".PNG" -> ".png"
              [] s = ".JPG" -> ".jpg"
              [] OTHER -> s

\* A file system entry: present or not, a regular file or a directory, its
\* suffix, and whether the decoder rejects its bytes.
NoEntry == [present |-> FALSE, is_file |-> FALSE, suffix |-> ".txt", corrupt |-> FALSE]
EntryKinds == {[present |-> TRUE, is_file |-> TRUE,  suffix |-> ".jpg", corrupt |-> FALSE],
               [present |-> TRUE, is_file |-> TRUE,  suffix |-> ".PNG", corrupt |-> TRUE],
               [present |-> TRUE, is_file |-> TRUE,  suffix |-> ".txt", corrupt |-> FALSE],
               [present |-> TRUE, is_file |-> FALSE, suffix |-> ".jpg", corrupt |-> FALSE],
               NoEntry}
Names == 1..MaxFiles
Listings == [Names -> EntryKinds]
EmptyListing == [n \in Names |-> NoEntry]

\* sorted(): the names of a set in ascending order.
RECURSIVE SortedSeq(_)
SortedSeq(S) ==
    IF S = {} THEN <<>>
    ELSE LET m == CHOOSE x \in S : \A y \in S : x <= y
         IN <<m>> \o SortedSeq(S \ {m})

\* BatchProcessor._find_image_files.
FindImageFilesUnsorted(listing) ==
    {n \in Names : /\ listing[n].present
                   /\ listing[n].is_file
                   /\ Lower(listing[n].suffix) \in supported_formats}

\* The files in descending order of their names.
FindImageFilesDescending(listing) ==
    LET up == SortedSeq(FindImageFilesUnsorted(listing))
    IN [i \in 1..Len(up) |-> up[Len(up) + 1 - i]]

\* return sorted(image_files), line 159.
FindImageFiles(listing) == SortedSeq(FindImageFilesUnsorted(listing))

\* The suffix is looked at before the path.
ValidateImagePathSuffixFirst(file) ==
    IF Lower(file.suffix) \notin supported_formats THEN "ValueError"
    ELSE IF ~file.present THEN "FileNotFoundError"
    ELSE "none"

\* PillowCLI.validate_image_path: the error it raises, or "none".
ValidateImagePath(file) ==
    IF ~file.present THEN "FileNotFoundError"
    ELSE IF Lower(file.suffix) \notin supported_formats THEN "ValueError"
    ELSE "none"

\* PillowCLI.load_image: validate, then Image.open.
LoadImage(file) ==
    IF ValidateImagePath(file) # "none" THEN ValidateImagePath(file)
    ELSE IF file.corrupt \/ ~file.is_file THEN "UnidentifiedImageError"
    ELSE "none"

\* PillowCLI.process_image: the error it raises ("none" when it returns) and
\* whether save_image wrote the output.
ProcessImage(file, processor_name, argsOK) ==
    IF processor_name \notin processors
        THEN [error |-> "ValueError", loaded |-> FALSE, saved |-> FALSE]
    ELSE IF LoadImage(file) # "none"
        THEN [error |-> LoadImage(file), loaded |-> FALSE, saved |-> FALSE]
    ELSE IF ~argsOK
        THEN [error |-> "ValueError", loaded |-> TRUE, saved |-> FALSE]
    ELSE [error |-> "none", loaded |-> TRUE, saved |-> TRUE]

Msg(m, a, b) == [msg |-> m, a |-> a, b |-> b]

InitCli ==
    /\ pc = "start"
    /\ caller = "none"
    /\ command = "none"
    /\ operation = "none"
    /\ kwargsOK = TRUE
    /\ dirExists = FALSE
    /\ dirListing = EmptyListing
    /\ outDirMade = FALSE
    /\ image_files = <<>>
    /\ idx = 0
    /\ processed_count = 0
    /\ attempts = [n \in Names |-> 0]
    /\ failureOccurred = FALSE
    /\ raisedExc = "none"
    /\ raisedNames = {}
    /\ loopEntered = FALSE
    /\ printed = <<>>
    /\ exitCode = -1

batchVars == <<operation, dirExists, dirListing, outDirMade, image_files, idx,
               processed_count, attempts, raisedNames, loopEntered>>

\* main(), lines 564-641: the try block has raised `err` ("none": it returned).
\* The except clause prints the error and calls sys.exit(1); otherwise main()
\* returns and the interpreter exits with 0.
MainEnd(err) ==
    /\ pc' = "exited"
    /\ raisedExc' = err
    /\ failureOccurred' = (failureOccurred \/ err # "none")
    /\ printed' = IF err # "none" THEN Append(printed, Msg("Error", 0, 0)) ELSE printed
    /\ exitCode' = IF err # "none" THEN 1 ELSE 0

\* main() on a subcommand that is one call of process_image.
MainSingle(cmd, file, argsOK) ==
    /\ pc = "start"
    /\ command' = cmd
    /\ caller' = "main"
    /\ kwargsOK' = argsOK
    /\ MainEnd(ProcessImage(file, SingleCommands[cmd], argsOK).error)
    /\ UNCHANGED batchVars
    /\ UNCHANGED notCli

\* main() on "metadata": extract_metadata loads the image and prints.
MainMetadata(file) ==
    /\ pc = "start"
    /\ command' = "metadata"
    /\ caller' = "main"
    /\ MainEnd(LoadImage(file))
    /\ UNCHANGED <<kwargsOK, batchVars>>
    /\ UNCHANGED notCli

\* PillowCLI.create_collage: the error it raises, or "none".
CreateCollage(files, argsOK) ==
    IF files = <<>> THEN "ValueError"
    ELSE IF \E i \in 1..Len(files) : LoadImage(files[i]) # "none"
        THEN LoadImage(files[CHOOSE i \in 1..Len(files) :
                 /\ LoadImage(files[i]) # "none"
                 /\ \A j \in 1..(i - 1) : LoadImage(files[j]) = "none"])
    ELSE IF ~argsOK THEN "ZeroDivisionError"
    ELSE "none"

\* main() on "collage" (argparse nargs="+" : at least one input).
MainCollage(files, argsOK) ==
    /\ pc = "start"
    /\ command' = "collage"
    /\ caller' = "main"
    /\ kwargsOK' = argsOK
    /\ MainEnd(CreateCollage(files, argsOK))
    /\ UNCHANGED batchVars
    /\ UNCHANGED notCli

\* main() on "batch": cli.batch_process calls process_directory.  argparse
\* restricts the operation to the five keys of operation_map.
MainBatch(exists, listing, op, argsOK) ==
    /\ pc = "start"
    /\ op \in DOMAIN operation_map
    /\ command' = "batch"
    /\ caller' = "main"
    /\ operation' = op
    /\ kwargsOK' = argsOK
    /\ dirExists' = exists
    /\ dirListing' = listing
    /\ pc' = "batch_enter"
    /\ UNCHANGED <<outDirMade, image_files, idx, processed_count, attempts,
                   failureOccurred, raisedExc, raisedNames, loopEntered, printed,
                   exitCode>>
    /\ UNCHANGED notCli

\* BatchProcessor.process_directory called directly, with any operation name.
ApiBatch(exists, listing, op, argsOK) ==
    /\ pc = "start"
    /\ command' = "none"
    /\ caller' = "api"
    /\ operation' = op
    /\ kwargsOK' = argsOK
    /\ dirExists' = exists
    /\ dirListing' = listing
    /\ pc' = "batch_enter"
    /\ UNCHANGED <<outDirMade, image_files, idx, processed_count, attempts,
                   failureOccurred, raisedExc, raisedNames, loopEntered, printed,
                   exitCode>>
    /\ UNCHANGED notCli

\* process_directory, lines 102-130: up to the for loop.
ProcessDirectoryEnter ==
    /\ pc = "batch_enter"
    /\ IF ~dirExists THEN
            /\ pc' = "batch_raised"
            /\ raisedExc' = "FileNotFoundError"
            /\ failureOccurred' = TRUE
            /\ UNCHANGED <<outDirMade, image_files, idx, loopEntered, printed>>
       ELSE IF FindImageFiles(dirListing) = <<>> THEN
            /\ pc' = "batch_returned"
            /\ outDirMade' = TRUE
            /\ image_files' = <<>>
            /\ printed' = Append(printed, Msg("No image files found", 0, 0))
            /\ UNCHANGED <<raisedExc, failureOccurred, idx, loopEntered>>
       ELSE IF operation \notin DOMAIN operation_map THEN
            /\ pc' = "batch_returned"
            /\ outDirMade' = TRUE
            /\ image_files' = FindImageFiles(dirListing)
            /\ printed' = Append(Append(printed,
                              Msg("Processing", Len(FindImageFiles(dirListing)), 0)),
                              Msg("Unknown batch operation", 0, 0))
            /\ UNCHANGED <<raisedExc, failureOccurred, idx, loopEntered>>
       ELSE
            /\ pc' = "batch_loop"
            /\ outDirMade' = TRUE
            /\ image_files' = FindImageFiles(dirListing)
            /\ idx' = 1
            /\ loopEntered' = TRUE
            /\ printed' = Append(printed,
                              Msg("Processing", Len(FindImageFiles(dirListing)), 0))
            /\ UNCHANGED <<raisedExc, failureOccurred>>
    /\ UNCHANGED <<caller, command, operation, kwargsOK, dirExists, dirListing,
                   processed_count, attempts, raisedNames, exitCode>>
    /\ UNCHANGED notCli

\* One iteration of the for loop, lines 132-138, without the try/except: the
\* exception leaves process_directory.
BatchIterationNoCatch ==
    /\ pc = "batch_loop"
    /\ idx <= Len(image_files)
    /\ LET name == image_files[idx]
           r == ProcessImage(dirListing[name], operation_map[operation], kwargsOK)
       IN /\ attempts' = [attempts EXCEPT ![name] = @ + 1]
          /\ IF r.error = "none"
                THEN /\ processed_count' = processed_count + 1
                     /\ idx' = idx + 1
                     /\ UNCHANGED <<raisedNames, failureOccurred, raisedExc, pc>>
                ELSE /\ raisedNames' = raisedNames \cup {name}
                     /\ failureOccurred' = TRUE
                     /\ raisedExc' = r.error
                     /\ pc' = "batch_raised"
                     /\ UNCHANGED <<processed_count, idx>>
    /\ UNCHANGED <<caller, command, operation, kwargsOK, dirExists, dirListing,
                   outDirMade, image_files, loopEntered, printed, exitCode>>
    /\ UNCHANGED notCli

\* One iteration of the for loop with processed_count incremented before the
\* call of process_func.
BatchIterationCountFirst ==
    /\ pc = "batch_loop"
    /\ idx <= Len(image_files)
    /\ LET name == image_files[idx]
           r == ProcessImage(dirListing[name], operation_map[operation], kwargsOK)
       IN /\ attempts' = [attempts EXCEPT ![name] = @ + 1]
          /\ processed_count' = processed_count + 1
          /\ IF r.error = "none"
                THEN UNCHANGED <<raisedNames, failureOccurred, printed>>
                ELSE /\ raisedNames' = raisedNames \cup {name}
                     /\ failureOccurred' = TRUE
                     /\ printed' = Append(printed, Msg("Error processing", name, 0))
    /\ idx' = idx + 1
    /\ UNCHANGED <<pc, caller, command, operation, kwargsOK, dirExists, dirListing,
                   outDirMade, image_files, loopEntered, raisedExc, exitCode>>
    /\ UNCHANGED notCli

\* One iteration of the for loop, lines 132-138.
BatchIteration ==
    /\ pc = "batch_loop"
    /\ idx <= Len(image_files)
    /\ LET name == image_files[idx]
           r == ProcessImage(dirListing[name], operation_map[operation], kwargsOK)
       IN /\ attempts' = [attempts EXCEPT ![name] = @ + 1]
          /\ IF r.error = "none"
                THEN /\ processed_count' = processed_count + 1
                     /\ UNCHANGED <<raisedNames, failureOccurred, printed>>
                ELSE /\ raisedNames' = raisedNames \cup {name}
                     /\ failureOccurred' = TRUE
                     /\ printed' = Append(printed, Msg("Error processing", name, 0))
                     /\ UNCHANGED processed_count
    /\ idx' = idx + 1
    /\ UNCHANGED <<pc, caller, command, operation, kwargsOK, dirExists, dirListing,
                   outDirMade, image_files, loopEntered, raisedExc, exitCode>>
    /\ UNCHANGED notCli

\* The end of the loop, line 140: the summary is printed and the call returns.
BatchFinish ==
    /\ pc = "batch_loop"
    /\ idx > Len(image_files)
    /\ printed' = Append(printed,
                     Msg("Successfully processed", processed_count, Len(image_files)))
    /\ pc' = "batch_returned"
    /\ UNCHANGED <<caller, command, operation, kwargsOK, dirExists, dirListing,
                   outDirMade, image_files, idx, processed_count, attempts,
                   failureOccurred, raisedExc, raisedNames, loopEntered, exitCode>>
    /\ UNCHANGED notCli

\* main() after cli.batch_process: it returned, or its exception is handled.
MainBatchEnd ==
    /\ pc \in {"batch_returned", "batch_raised"}
    /\ caller = "main"
    /\ MainEnd(IF pc = "batch_raised" THEN raisedExc ELSE "none")
    /\ UNCHANGED <<caller, command, kwargsOK, batchVars>>
    /\ UNCHANGED notCli

(***************************************************************************)
(* Part 2.  The sepia effect.                                              *)
(*                                                                         *)
(* _apply_sepia evaluates 0.393 * r + 0.769 * g + 0.189 * b (and the two   *)
(* other rows) in Python floats, that is IEEE-754 binary64 with every      *)
(* operation rounded to nearest, ties to even, and truncates with int().   *)
(* The operators below compute exactly that.  A non-negative binary64      *)
(* value below 2^20 whose unit in the last place is at least 2^-60 (every  *)
(* value of the computation is one) is held as four limbs <<l0,l1,l2,l3>>  *)
(* of 20 bits, least significant first, standing for                       *)
(*     (l0 + l1*2^20 + l2*2^40 + l3*2^60) / 2^60 ,                         *)
(* so that l3 is the integer part.                                         *)
(***************************************************************************)
LimbBase == 2^20

RECURSIVE Pow2(_)
Pow2(n) == IF n = 0 THEN 1 ELSE 2 * Pow2(n - 1)

\* The number of bits of a natural number (0 for 0).
RECURSIVE BitLength(_)
BitLength(n) == IF n = 0 THEN 0 ELSE 1 + BitLength(n \div 2)

\* x + y on limbs.
BigAdd(x, y) ==
    LET s0 == x[1] + y[1]
        s1 == x[2] + y[2] + (s0 \div LimbBase)
        s2 == x[3] + y[3] + (s1 \div LimbBase)
        s3 == x[4] + y[4] + (s2 \div LimbBase)
    IN <<s0 % LimbBase, s1 % LimbBase, s2 % LimbBase, s3>>

\* x * k on limbs, for an integer 0 <= k <= 255.
BigMulSmall(x, k) ==
    LET p0 == x[1] * k
        p1 == x[2] * k + (p0 \div LimbBase)
        p2 == x[3] * k + (p1 \div LimbBase)
        p3 == x[4] * k + (p2 \div LimbBase)
    IN <<p0 % LimbBase, p1 % LimbBase, p2 % LimbBase, p3>>

\* The index of the most significant set bit of x (-1 for zero).
MsbIndex(x) ==
    IF x[4] # 0 THEN 60 + BitLength(x[4]) - 1
    ELSE IF x[3] # 0 THEN 40 + BitLength(x[3]) - 1
    ELSE IF x[2] # 0 THEN 20 + BitLength(x[2]) - 1
    ELSE BitLength(x[1]) - 1

\* Rounding of the exact value x (plus a non-zero amount below its last bit
\* when sticky) to 53 significant bits, to nearest, ties to even: the
\* rounding every binary64 operation performs.  At most 19 bits are dropped
\* here, all of them in the lowest limb.
Round53(x, sticky) ==
    LET s == MsbIndex(x) - 52
    IN IF s <= 0 THEN x
       ELSE LET low  == x[1] % Pow2(s)
                half == Pow2(s - 1)
                odd  == (x[1] \div Pow2(s)) % 2 = 1
                base == <<x[1] - low, x[2], x[3], x[4]>>
                up   == \/ low > half
                        \/ low = half /\ sticky
                        \/ low = half /\ ~sticky /\
                             IF s < 20 THEN odd ELSE x[2] % 2 = 1
            IN IF up THEN BigAdd(base, <<Pow2(s), 0, 0, 0>>) ELSE base

\* The binary64 value of the literal 0.nnn (n thousandths, 0 < n < 1000), as
\* the Python compiler computes it: the nearest binary64 to n/1000.
FloatLiteral(n) ==
    LET c2 == n * LimbBase
        c1 == (c2 % 1000) * LimbBase
        c0 == (c1 % 1000) * LimbBase
    IN Round53(<<c0 \div 1000, c1 \div 1000, c2 \div 1000, 0>>, c0 % 1000 # 0)

\* float * int and float + float.
FloatMulInt(x, k) == Round53(BigMulSmall(x, k), FALSE)
FloatAdd(x, y) == Round53(BigAdd(x, y), FALSE)

\* int(x) for a non-negative float.
FloatToInt(x) == x[4]

\* int(ca * r + cb * g + cc * b), lines 258-260, the coefficients in
\* thousandths.
SepiaRow(ca, cb, cc, r, g, b) ==
    FloatToInt(FloatAdd(FloatAdd(FloatMulInt(FloatLiteral(ca), r),
                                 FloatMulInt(FloatLiteral(cb), g)),
                        FloatMulInt(FloatLiteral(cc), b)))

Min(a, b) == IF a <= b THEN a ELSE b

\* The new value of one pixel, lines 257-261, without the min(255, ...).
SepiaPixelNoClamp(p) ==
    <<SepiaRow(393, 769, 189, p[1], p[2], p[3]),
      SepiaRow(349, 686, 168, p[1], p[2], p[3]),
      SepiaRow(272, 534, 131, p[1], p[2], p[3])>>

\* The new value of one pixel, lines 257-261.
SepiaPixel(p) ==
    <<Min(255, SepiaRow(393, 769, 189, p[1], p[2], p[3])),
      Min(255, SepiaRow(349, 686, 168, p[1], p[2], p[3])),
      Min(255, SepiaRow(272, 534, 131, p[1], p[2], p[3]))>>

(***************************************************************************)
(* Images: width, height and the pixels in row-major order, pixel (x, y)   *)
(* at index y * width + x + 1.  All images here are of mode RGB.           *)
(***************************************************************************)

\* The colours multi-pixel images are drawn from.
SamplePixels == {<<0, 0, 0>>, <<4, 11, 21>>, <<100, 150, 200>>, <<255, 255, 255>>}

\* The channel levels single-pixel images are drawn from: 0 .. 255 in
\* GridSteps equal steps.
GridLevels == {(255 * k) \div GridSteps : k \in 0..GridSteps}
GridPixels == GridLevels \X GridLevels \X GridLevels

Shapes == {wh \in (0..MaxPixels) \X (0..MaxPixels) : wh[1] * wh[2] <= MaxPixels}

\* An image of any shape, its pixels among SamplePixels.
InitSampleImage ==
    /\ \E wh \in Shapes :
          /\ imgW = wh[1] /\ imgH = wh[2]
          /\ imgPixels \in [1..(wh[1] * wh[2]) -> SamplePixels]
    /\ imgOrig = imgPixels

\* As InitSampleImage, or an image of one pixel of any colour of the grid.
InitImage ==
    /\ \/ \E wh \in Shapes :
             /\ imgW = wh[1] /\ imgH = wh[2]
             /\ imgPixels \in [1..(wh[1] * wh[2]) -> SamplePixels]
       \/ imgW = 1 /\ imgH = 1 /\ imgPixels \in [{1} -> GridPixels]
    /\ imgOrig = imgPixels

IdleImage ==
    /\ imgW = 0 /\ imgH = 0 /\ imgPixels = <<>> /\ imgOrig = <<>>

IdleSepia == sx = 0 /\ sy = 0 /\ sepPc = "idle"

InitSepia == sx = 0 /\ sy = 0 /\ sepPc = "loop"

PixelIndex(x, y) == y * imgW + x + 1

\* The loops advance and the pixel is left as it is.
ApplySepiaStepNoWrite ==
    /\ sepPc = "loop"
    /\ sy < imgH /\ sx < imgW
    /\ IF sx + 1 < imgW
          THEN sx' = sx + 1 /\ sy' = sy
          ELSE sx' = 0 /\ sy' = sy + 1
    /\ UNCHANGED <<imgVars, sepPc>>
    /\ UNCHANGED notSepia

\* One pass of the inner loop body of _apply_sepia, lines 257-261, and the
\* advance of range(image.width) / range(image.height).
ApplySepiaStep ==
    /\ sepPc = "loop"
    /\ sy < imgH /\ sx < imgW
    /\ imgPixels' = [imgPixels EXCEPT ![PixelIndex(sx, sy)] = SepiaPixel(@)]
    /\ IF sx + 1 < imgW
          THEN sx' = sx + 1 /\ sy' = sy
          ELSE sx' = 0 /\ sy' = sy + 1
    /\ UNCHANGED <<imgW, imgH, imgOrig, sepPc>>
    /\ UNCHANGED notSepia

\* Both loops are exhausted (at once for an image without pixels): return image.
ApplySepiaReturn ==
    /\ sepPc = "loop"
    /\ sy >= imgH \/ imgW = 0
    /\ sepPc' = "done"
    /\ UNCHANGED <<imgVars, sx, sy>>
    /\ UNCHANGED notSepia

NextSepia == ApplySepiaStep \/ ApplySepiaReturn

(***************************************************************************)
(* Part 3.  analyze_histogram.                                             *)
(***************************************************************************)

NoData == [red_channel |-> <<>>, green_channel |-> <<>>, blue_channel |-> <<>>,
           total_pixels |-> -1]

\* Image.histogram() of an RGB image: 768 counts, the 256 levels of the red
\* band, then of the green band, then of the blue band.
ImageHistogram(pixels) ==
    [k \in 1..768 |->
        Cardinality({i \in DOMAIN pixels :
                        pixels[i][((k - 1) \div 256) + 1] = (k - 1) % 256})]

\* h[256 * band : 256 * band + 255]: a slice one entry short.
HistSliceShort(h, band) == SubSeq(h, 256 * band + 1, 256 * band + 255)

\* h[256 * band : 256 * band + 256], the slices of lines 17-19.
HistSlice(h, band) == SubSeq(h, 256 * band + 1, 256 * band + 256)

\* sum(q[lo .. hi]), by halves.
RECURSIVE SumRange(_, _, _)
SumRange(q, lo, hi) ==
    IF lo > hi THEN 0
    ELSE IF lo = hi THEN q[lo]
    ELSE LET mid == (lo + hi) \div 2
         IN SumRange(q, lo, mid) + SumRange(q, mid + 1, hi)

\* sum(q).
SumSeq(q) == SumRange(q, 1, Len(q))

\* sum(i * hist[i] for i in range(256)), with Python's 0-based i.
WeightedSum(hist) == SumSeq([i \in 1..Len(hist) |-> (i - 1) * hist[i]])

IdleHist ==
    /\ histPc = "idle" /\ histogram_data = NoData /\ histAvg = <<>>
    /\ histError = "none" /\ histSaved = FALSE

InitHist ==
    /\ histPc = "start" /\ histogram_data = NoData /\ histAvg = <<>>
    /\ histError = "none" /\ histSaved = FALSE

\* analyze_histogram(image, input_path, output_path), lines 11-44.
AnalyzeHistogram(with_output) ==
    /\ histPc = "start"
    /\ LET h == ImageHistogram(imgPixels)
           hist_r == HistSlice(h, 0)
           hist_g == HistSlice(h, 1)
           hist_b == HistSlice(h, 2)
           data == [red_channel |-> hist_r, green_channel |-> hist_g,
                    blue_channel |-> hist_b, total_pixels |-> imgW * imgH]
       IN IF SumSeq(hist_r) = 0 \/ SumSeq(hist_g) = 0 \/ SumSeq(hist_b) = 0
             THEN \* the division of lines 33-35 raises
                  /\ histError' = "ZeroDivisionError"
                  /\ UNCHANGED <<histogram_data, histAvg, histSaved>>
             ELSE /\ histAvg' = << <<WeightedSum(hist_r), SumSeq(hist_r)>>,
                                   <<WeightedSum(hist_g), SumSeq(hist_g)>>,
                                   <<WeightedSum(hist_b), SumSeq(hist_b)>> >>
                  /\ histogram_data' = data
                  /\ histSaved' = with_output
                  /\ histError' = "none"
    /\ histPc' = "done"
    /\ UNCHANGED imgVars
    /\ UNCHANGED notHist

NextHist == \E with_output \in BOOLEAN : AnalyzeHistogram(with_output)

(***************************************************************************)
(* Part 4.  extract_color_palette.                                         *)
(*                                                                         *)
(* palPixels is the array `pixels` of line 57: the image after             *)
(* resize((150, 150)) and reshape(-1, 3), in row-major order.  KMeans is   *)
(* the library's: its centroids are any num_colors points of RGB space,    *)
(* held here in tenths of a level.                                         *)
(***************************************************************************)

PaletteColours == {<<255, 0, 0>>, <<0, 255, 0>>, <<0, 0, 255>>}
CentroidSamples == {<<1276, 0, 2550>>, <<1274, 999, 5>>}

IdlePal ==
    /\ palPixels = <<>> /\ num_colors = 0 /\ sklearnAvailable = FALSE
    /\ palPc = "idle" /\ palPos = 0 /\ unique_colors = <<>>
    /\ cluster_centers = <<>> /\ palPath = "none" /\ palResult = <<>>
    /\ palError = "none"

InitPal ==
    /\ \E n \in 1..MaxAnalysed : palPixels \in [1..n -> PaletteColours]
    /\ num_colors \in 1..MaxK
    /\ sklearnAvailable \in BOOLEAN
    /\ palPc = "start" /\ palPos = 0 /\ unique_colors = <<>>
    /\ cluster_centers = <<>> /\ palPath = "none" /\ palResult = <<>>
    /\ palError = "none"

\* The outcome of the import of line 61.
ImportKMeans == IF sklearnAvailable THEN "none" ELSE "ImportError"

\* A handler that matches no exception.
ExceptNothing(exc) == FALSE

\* `except ImportError:`, line 73: whether the handler matches exc.
ExceptImportError(exc) == exc = "ImportError"

\* numpy astype(int) of a non-negative float, given in tenths.
AsTypeInt(t) == t \div 10

\* Lines 59-75: the try block up to its return, or the entry of the handler.
ExtractStart ==
    /\ palPc = "start"
    /\ IF ImportKMeans = "none" THEN
            \E centers \in [1..num_colors -> CentroidSamples] :
                /\ cluster_centers' = centers
                /\ palResult' = [i \in 1..num_colors |->
                                    <<AsTypeInt(centers[i][1]),
                                      AsTypeInt(centers[i][2]),
                                      AsTypeInt(centers[i][3])>>]
                /\ palPath' = "kmeans"
                /\ palPc' = "done"
                /\ UNCHANGED <<palPos, palError>>
       ELSE IF ExceptImportError(ImportKMeans) THEN
            /\ palPath' = "frequency"
            /\ palPc' = "count"
            /\ palPos' = 1
            /\ UNCHANGED <<cluster_centers, palResult, palError>>
       ELSE
            /\ palError' = ImportKMeans
            /\ palPc' = "done"
            /\ UNCHANGED <<cluster_centers, palResult, palPath, palPos>>
    /\ UNCHANGED <<palPixels, num_colors, sklearnAvailable, unique_colors>>
    /\ UNCHANGED notPal

\* unique_colors[color] = unique_colors.get(color, 0) + 1 on an insertion-
\* ordered dict.
DictIncrement(d, color) ==
    IF \E i \in 1..Len(d) : d[i].color = color
        THEN [i \in 1..Len(d) |->
                IF d[i].color = color
                    THEN [color |-> color, count |-> d[i].count + 1]
                    ELSE d[i]]
        ELSE Append(d, [color |-> color, count |-> 1])

\* One iteration of the loop of lines 77-79.
FallbackCount ==
    /\ palPc = "count"
    /\ palPos <= Len(palPixels)
    /\ unique_colors' = DictIncrement(unique_colors, palPixels[palPos])
    /\ palPos' = palPos + 1
    /\ UNCHANGED <<palPixels, num_colors, sklearnAvailable, palPc,
                   cluster_centers, palPath, palResult, palError>>
    /\ UNCHANGED notPal

\* x put into a list sorted by descending count, before every item whose
\* count is not greater: x precedes the items of the list in the input.
InsertDesc(x, L) ==
    LET k == Cardinality({i \in 1..Len(L) : L[i].count > x.count})
    IN SubSeq(L, 1, k) \o <<x>> \o SubSeq(L, k + 1, Len(L))

\* x put into a list sorted by ascending count, before every item whose
\* count is not smaller.
InsertAsc(x, L) ==
    LET k == Cardinality({i \in 1..Len(L) : L[i].count < x.count})
    IN SubSeq(L, 1, k) \o <<x>> \o SubSeq(L, k + 1, Len(L))

\* sorted(items, key=lambda x: x[1]): ascending, reverse left out.
RECURSIVE SortedByCountAsc(_)
SortedByCountAsc(items) ==
    IF items = <<>> THEN <<>>
    ELSE InsertAsc(Head(items), SortedByCountAsc(Tail(items)))

\* sorted(items, key=lambda x: x[1], reverse=True), line 82: Python's sort is
\* stable, and with reverse=True items of equal key keep their input order.
RECURSIVE SortedByCount(_)
SortedByCount(items) ==
    IF items = <<>> THEN <<>>
    ELSE InsertDesc(Head(items), SortedByCount(Tail(items)))

\* [list(c[0]) for c in sorted_colors[:k - 1]]: a slice one item short.
TopColorsShort(sorted_colors, k) ==
    [i \in 1..Min(k - 1, Len(sorted_colors)) |-> sorted_colors[i].color]

\* [list(c[0]) for c in sorted_colors[:k]], line 83, for k >= 0.
TopColors(sorted_colors, k) ==
    [i \in 1..Min(k, Len(sorted_colors)) |-> sorted_colors[i].color]

\* Lines 82-90: sort, slice and return.
FallbackFinish ==
    /\ palPc = "count"
    /\ palPos > Len(palPixels)
    /\ palResult' = TopColors(SortedByCount(unique_colors), num_colors)
    /\ palPc' = "done"
    /\ UNCHANGED <<palPixels, num_colors, sklearnAvailable, palPos,
                   unique_colors, cluster_centers, palPath, palError>>
    /\ UNCHANGED notPal

NextPal == ExtractStart \/ FallbackCount \/ FallbackFinish

(***************************************************************************)
(* Part 5.  create_collage and create_contact_sheet.                       *)
(***************************************************************************)

\* The sizes <<width, height>> the images of a call are drawn from.
ItemSizes == {<<1, 3>>, <<4, 2>>}

\* The exceptions that can leave the two calls.
NoInputImages == "ValueError: No input images provided"
MaxOfNothing == "ValueError: max() arg is an empty sequence"
DivisionByZero == "ZeroDivisionError"
BadImageSize == "ValueError: bad image size"

Max(a, b) == IF a >= b THEN a ELSE b
Abs(a) == IF a >= 0 THEN a ELSE 0 - a
MaxOf(S) == CHOOSE m \in S : \A e \in S : e <= m

IdleLay ==
    /\ layPc = "idle" /\ layKind = "none" /\ layCaller = "none"
    /\ layInput = <<>> /\ laySizes = <<>>
    /\ cols = 0 /\ padding = 0 /\ sheet_width = 0 /\ margin = 0
    /\ rows = 0 /\ cellW = 0 /\ cellH = 0 /\ canvasW = 0 /\ canvasH = 0
    /\ layI = 0 /\ pastes = <<>>
    /\ layError = "none" /\ layArith = FALSE /\ layOutput = FALSE

\* A call of either kind is about to be made: the images (possibly none) and
\* the parameters of its kind are fixed.
InitLay ==
    /\ layPc = "start" /\ layCaller = "none"
    /\ \E n \in 0..MaxItems : layInput \in [1..n -> ItemSizes]
    /\ laySizes = layInput
    /\ \/ /\ layKind = "collage"
          /\ cols \in 1..MaxCols /\ padding \in 0..MaxPadding
          /\ sheet_width = 0 /\ margin = 0
       \/ /\ layKind = "sheet"
          /\ cols = 0 /\ padding = 0
          /\ sheet_width \in 0..MaxSheetWidth /\ margin \in 0..MaxPadding
    /\ rows = 0 /\ cellW = 0 /\ cellH = 0 /\ canvasW = 0 /\ canvasH = 0
    /\ layI = 0 /\ pastes = <<>>
    /\ layError = "none" /\ layArith = FALSE /\ layOutput = FALSE

layParams == <<layKind, layInput, padding, sheet_width, margin>>
layGrid == <<rows, cellW, cellH, canvasW, canvasH, layI, pastes>>

\* PillowCLI.create_collage up to the call of the creator: the guard on an
\* empty list, then the images are loaded.
CliCreateCollage ==
    /\ layPc = "start" /\ layKind = "collage"
    /\ layCaller' = "cli"
    /\ IF Len(layInput) = 0
          THEN layError' = NoInputImages /\ layPc' = "done"
          ELSE layError' = layError /\ layPc' = "collage"
    /\ UNCHANGED <<layParams, laySizes, cols, layGrid, layArith, layOutput>>
    /\ UNCHANGED notLay

\* CollageCreator.create_collage called with a list of images, not through
\* PillowCLI.
DirectCreateCollage ==
    /\ layPc = "start" /\ layKind = "collage"
    /\ layCaller' = "direct"
    /\ layPc' = "collage"
    /\ UNCHANGED <<layParams, laySizes, cols, layGrid, layError, layArith,
                   layOutput>>
    /\ UNCHANGED notLay

\* The rows are the full rows only.
CollageRowsFloor(n, c) == n \div c

\* rows = (len(images) + cols - 1) // cols
CollageRows(n, c) == (n + c - 1) \div c

\* collage_width and collage_height.
CollageWidth(c, max_width, pad) == c * max_width + (c + 1) * pad
CollageHeight(r, max_height, pad) == r * max_height + (r + 1) * pad

\* The stride of the columns has lost the width of the cell.
CollagePositionNarrow(i, c, max_width, max_height, pad) ==
    <<(i % c) * pad + pad, (i \div c) * (max_height + pad) + pad>>

\* The point <<x, y>> image i (counted from 0) is pasted at.
CollagePosition(i, c, max_width, max_height, pad) ==
    <<(i % c) * (max_width + pad) + pad, (i \div c) * (max_height + pad) + pad>>

\* create_collage from rows to Image.new: max() raises on an empty list; the
\* resized images are new objects of the size of the cell.
CollageLayout ==
    /\ layPc = "collage"
    /\ rows' = CollageRows(Len(laySizes), cols)
    /\ layArith' = TRUE
    /\ IF Len(laySizes) = 0
          THEN /\ layError' = MaxOfNothing
               /\ layPc' = "done"
               /\ UNCHANGED <<cellW, cellH, canvasW, canvasH>>
          ELSE /\ cellW' = MaxOf({laySizes[k][1] : k \in DOMAIN laySizes})
               /\ cellH' = MaxOf({laySizes[k][2] : k \in DOMAIN laySizes})
               /\ canvasW' = CollageWidth(cols, cellW', padding)
               /\ canvasH' = CollageHeight(rows', cellH', padding)
               /\ layError' = layError
               /\ layPc' = "collage_paste"
    /\ UNCHANGED <<layParams, layCaller, laySizes, cols, layI, pastes, layOutput>>
    /\ UNCHANGED notLay

\* One pass of `for i, img in enumerate(resized_images)`.
CollagePaste ==
    /\ layPc = "collage_paste"
    /\ layI < Len(laySizes)
    /\ LET pos == CollagePosition(layI, cols, cellW, cellH, padding)
       IN pastes' = Append(pastes, [x |-> pos[1], y |-> pos[2],
                                    w |-> cellW, h |-> cellH])
    /\ layI' = layI + 1
    /\ UNCHANGED <<layParams, layCaller, layPc, laySizes, cols, rows, cellW,
                   cellH, canvasW, canvasH, layError, layArith, layOutput>>
    /\ UNCHANGED notLay

\* return collage
CollageReturn ==
    /\ layPc = "collage_paste"
    /\ layI >= Len(laySizes)
    /\ layPc' = "returned"
    /\ UNCHANGED <<layParams, layCaller, laySizes, cols, layGrid, layError,
                   layArith, layOutput>>
    /\ UNCHANGED notLay

\* PillowCLI.create_contact_sheet up to the call of the creator.
CliCreateContactSheet ==
    /\ layPc = "start" /\ layKind = "sheet"
    /\ layCaller' = "cli"
    /\ IF Len(layInput) = 0
          THEN layError' = NoInputImages /\ layPc' = "done"
          ELSE layError' = layError /\ layPc' = "sheet"
    /\ UNCHANGED <<layParams, laySizes, cols, layGrid, layArith, layOutput>>
    /\ UNCHANGED notLay

\* ContactSheetCreator.create_contact_sheet called with a list of images,
\* not through PillowCLI.
DirectCreateContactSheet ==
    /\ layPc = "start" /\ layKind = "sheet"
    /\ layCaller' = "direct"
    /\ layPc' = "sheet"
    /\ UNCHANGED <<layParams, laySizes, cols, layGrid, layError, layArith,
                   layOutput>>
    /\ UNCHANGED notLay

\* cols = min(4, len(images))
SheetCols(n) == Min(4, n)

\* rows = (len(images) + cols - 1) // cols
SheetRows(n, c) == (n + c - 1) \div c

\* thumb_width = (sheet_width - margin * (cols + 1)) // cols
SheetThumb(sw, m, c) == (sw - m * (c + 1)) \div c

\* sheet_height
SheetHeight(r, thumb_height, m) == r * thumb_height + m * (r + 1)

\* create_contact_sheet from cols to Image.new: the division by cols raises
\* when there is no image, Image.new raises on a negative size.
SheetLayout ==
    /\ layPc = "sheet"
    /\ cols' = SheetCols(Len(laySizes))
    /\ layArith' = TRUE
    /\ IF cols' = 0
          THEN /\ layError' = DivisionByZero
               /\ layPc' = "done"
               /\ UNCHANGED <<rows, cellW, cellH, canvasW, canvasH>>
          ELSE /\ rows' = SheetRows(Len(laySizes), cols')
               /\ cellW' = SheetThumb(sheet_width, margin, cols')
               /\ cellH' = cellW'
               /\ canvasW' = sheet_width
               /\ canvasH' = SheetHeight(rows', cellH', margin)
               /\ IF canvasW' < 0 \/ canvasH' < 0
                     THEN layError' = BadImageSize /\ layPc' = "done"
                     ELSE layError' = layError /\ layPc' = "sheet_paste"
    /\ UNCHANGED <<layParams, layCaller, laySizes, layI, pastes, layOutput>>
    /\ UNCHANGED notLay

\* Image.thumbnail's round_aspect: of the floor f and the ceiling c of the
\* scaled side, the one whose key is smaller (the floor on a tie), at least 1.
RoundAspect(f, c, keyF, keyC) == Max(IF keyF <= keyC THEN f ELSE c, 1)

\* The size an image of w x h has after img.thumbnail((bx, by)), for a box
\* of at least one pixel a side: unchanged when it fits the box, else
\* reduced to the box on one axis and by the same ratio on the other.
Thumbnail(w, h, bx, by) ==
    IF bx >= w /\ by >= h
       THEN <<w, h>>
       ELSE IF bx * h >= w * by
               THEN LET f == (by * w) \div h
                        c == (by * w + h - 1) \div h
                    IN <<RoundAspect(f, c, Abs(w * by - f * h),
                                           Abs(w * by - c * h)), by>>
               ELSE LET f == (bx * h) \div w
                        c == (bx * h + w - 1) \div w
                    IN <<bx, RoundAspect(f, c,
                            IF f = 0 THEN 0 ELSE Abs(w * f - bx * h) * c,
                            IF c = 0 THEN 0 ELSE Abs(w * c - bx * h) * f)>>

\* The thumbnail is pasted at the corner of its cell.
SheetPositionCorner(i, c, thumb_width, thumb_height, m, w, h) ==
    <<(i % c) * (thumb_width + m) + m, (i \div c) * (thumb_height + m) + m>>

\* The point <<x, y>> thumbnail i (counted from 0), of size w x h, is pasted
\* at.
SheetPosition(i, c, thumb_width, thumb_height, m, w, h) ==
    LET x == (i % c) * (thumb_width + m) + m
        y == (i \div c) * (thumb_height + m) + m
    IN <<IF w < thumb_width THEN x + (thumb_width - w) \div 2 ELSE x,
         IF h < thumb_height THEN y + (thumb_height - h) \div 2 ELSE y>>

\* One pass of `for i, img in enumerate(images)`: img.thumbnail reduces the
\* image object in place and raises when the box has no pixel.
SheetPaste ==
    /\ layPc = "sheet_paste"
    /\ layI < Len(laySizes)
    /\ IF cellW <= 0
          THEN /\ layError' = IF cellW = 0 THEN DivisionByZero ELSE BadImageSize
               /\ layPc' = "done"
               /\ UNCHANGED <<laySizes, layI, pastes>>
          ELSE LET t == Thumbnail(laySizes[layI + 1][1], laySizes[layI + 1][2],
                                  cellW, cellH)
                   pos == SheetPosition(layI, cols, cellW, cellH, margin,
                                        t[1], t[2])
               IN /\ laySizes' = [laySizes EXCEPT ![layI + 1] = t]
                  /\ pastes' = Append(pastes, [x |-> pos[1], y |-> pos[2],
                                               w |-> t[1], h |-> t[2]])
                  /\ layI' = layI + 1
                  /\ UNCHANGED <<layError, layPc>>
    /\ UNCHANGED <<layParams, layCaller, cols, rows, cellW, cellH, canvasW,
                   canvasH, layArith, layOutput>>
    /\ UNCHANGED notLay

\* return contact_sheet
SheetReturn ==
    /\ layPc = "sheet_paste"
    /\ layI >= Len(laySizes)
    /\ layPc' = "returned"
    /\ UNCHANGED <<layParams, layCaller, laySizes, cols, layGrid, layError,
                   layArith, layOutput>>
    /\ UNCHANGED notLay

\* self.save_image(collage, output_path) / self.save_image(contact_sheet, ...)
CliSaveLayout ==
    /\ layPc = "returned" /\ layCaller = "cli"
    /\ layOutput' = TRUE
    /\ layPc' = "done"
    /\ UNCHANGED <<layParams, layCaller, laySizes, cols, layGrid, layError,
                   layArith>>
    /\ UNCHANGED notLay

NextLay ==
    \/ CliCreateCollage
    \/ DirectCreateCollage
    \/ CollageLayout
    \/ CollagePaste
    \/ CollageReturn
    \/ CliCreateContactSheet
    \/ DirectCreateContactSheet
    \/ SheetLayout
    \/ SheetPaste
    \/ SheetReturn
    \/ CliSaveLayout

(***************************************************************************)
(* Part 6.  VignetteProcessor.process.                                     *)
(*                                                                         *)
(* alpha = int(255 * (1 - strength * (i / steps))) is evaluated in binary64*)
(* with the operators of Part 2; strength is one of 0.0, 0.5 and 1.0, by   *)
(* which a multiplication is exact.  ImageDraw.ellipse is taken to fill    *)
(* the pixels whose distance from the centre is at most the radius; the    *)
(* images have at least four pixels a side, so that the innermost pixels   *)
(* and the corners do not depend on how the library renders the rim of an  *)
(* ellipse.                                                                *)
(***************************************************************************)
steps == 100

\* The values of strength, in halves.
Strengths == {0, 1, 2}

VigSides == 4..MaxVigSide

IdleVig ==
    /\ vigPc = "idle" /\ strength = 0 /\ vigI = 0
    /\ mask = <<>> /\ vigResult = <<>>

\* An image of two colours, alternating along its buffer.
InitVigImage ==
    /\ imgW \in VigSides /\ imgH \in VigSides
    /\ \E c1, c2 \in SamplePixels :
          imgPixels = [k \in 1..(imgW * imgH) |-> IF k % 2 = 1 THEN c1 ELSE c2]
    /\ imgOrig = imgPixels

InitVig ==
    /\ vigPc = "start" /\ strength \in Strengths /\ vigI = 0
    /\ mask = <<>> /\ vigResult = <<>>

\* x - y on limbs, for x >= y.
BigSub(x, y) ==
    LET d0 == x[1] - y[1]
        b0 == IF d0 < 0 THEN 1 ELSE 0
        d1 == x[2] - y[2] - b0
        b1 == IF d1 < 0 THEN 1 ELSE 0
        d2 == x[3] - y[3] - b1
        b2 == IF d2 < 0 THEN 1 ELSE 0
    IN <<d0 + b0 * LimbBase, d1 + b1 * LimbBase, d2 + b2 * LimbBase,
         x[4] - y[4] - b2>>

\* x / 2 on limbs, for an x whose last bit is 0.
BigHalf(x) ==
    <<(x[1] \div 2) + (x[2] % 2) * (LimbBase \div 2),
      (x[2] \div 2) + (x[3] % 2) * (LimbBase \div 2),
      (x[3] \div 2) + (x[4] % 2) * (LimbBase \div 2),
      x[4] \div 2>>

FloatZero == <<0, 0, 0, 0>>
FloatOne == <<0, 0, 0, 1>>

\* float - float, for x >= y.
FloatSub(x, y) == Round53(BigSub(x, y), FALSE)

\* i / steps: the binary64 nearest to the quotient.
StepFraction(i) == FloatLiteral((1000 * i) \div steps)

\* strength * q, exact for the three values of strength.
StrengthTimes(s, q) ==
    IF s = 0 THEN FloatZero ELSE IF s = 1 THEN BigHalf(q) ELSE q

\* alpha of step i, line 321.
VignetteAlpha(s, i) ==
    FloatToInt(FloatMulInt(FloatSub(FloatOne, StrengthTimes(s, StepFraction(i))),
                           255))

\* max_radius, lines 315-316.
MaxRadius == Min(imgW \div 2, imgH \div 2)

\* Pixel k of the buffer lies in the circle of step i: its distance from
\* (center_x, center_y) is at most max_radius * i / steps.
Painted(k, i) ==
    LET dx == ((k - 1) % imgW) - (imgW \div 2)
        dy == ((k - 1) \div imgW) - (imgH \div 2)
    IN (dx * dx + dy * dy) * steps * steps <= (MaxRadius * i) * (MaxRadius * i)

\* Lines 309-318: the mask is created filled with 0.
VignetteStart ==
    /\ vigPc = "start"
    /\ mask' = [k \in 1..(imgW * imgH) |-> 0]
    /\ vigI' = 0
    /\ vigPc' = "loop"
    /\ UNCHANGED <<imgVars, strength, vigResult>>
    /\ UNCHANGED notVig

\* One pass of `for i in range(steps)`: the circle of step i is filled with
\* its alpha, over whatever the earlier circles left there.
VignetteStep ==
    /\ vigPc = "loop"
    /\ vigI < steps
    /\ mask' = [k \in DOMAIN mask |->
                  IF Painted(k, vigI) THEN VignetteAlpha(strength, vigI)
                                      ELSE mask[k]]
    /\ vigI' = vigI + 1
    /\ UNCHANGED <<imgVars, vigPc, strength, vigResult>>
    /\ UNCHANGED notVig

\* Division by 255 as Image.alpha_composite performs it.
ShiftForDiv255(a) == ((a \div 256) + a) \div 256

\* One channel c of an opaque pixel under a black pixel of alpha a.
BlendUnderBlack(c, a) == ShiftForDiv255(c * 128 * (255 - a) + 16384) \div 128

\* Image.alpha_composite of the opaque pixel dst and the black pixel of
\* alpha a over it.
AlphaCompositeBlack(dst, a) ==
    IF a = 0
       THEN <<dst[1], dst[2], dst[3], 255>>
       ELSE <<BlendUnderBlack(dst[1], a), BlendUnderBlack(dst[2], a),
              BlendUnderBlack(dst[3], a), 255>>

\* Lines 325-330: the overlay is black with the mask as its alpha channel,
\* and is composited over the image.
VignetteComposite ==
    /\ vigPc = "loop"
    /\ vigI >= steps
    /\ vigResult' = [k \in DOMAIN mask |-> AlphaCompositeBlack(imgPixels[k], mask[k])]
    /\ vigPc' = "done"
    /\ UNCHANGED <<imgVars, strength, vigI, mask>>
    /\ UNCHANGED notVig

NextVig ==
    \/ VignetteStart
    \/ VignetteStep
    \/ VignetteComposite

(***************************************************************************)
(* Part 7.  One call of EffectProcessor, FilterProcessor,                  *)
(* WatermarkProcessor or CropProcessor on the image of imgVars, or of      *)
(* load_image on a path.                                                   *)
(***************************************************************************)

\* The keys of self.effects, self.filters and self.positions.
effects == {"sepia", "grayscale", "invert", "posterize", "solarize"}
filters == {"blur", "contour", "detail", "edge_enhance", "edge_enhance_more",
            "emboss", "find_edges", "sharpen", "smooth", "smooth_more",
            "gaussian_blur", "unsharp_mask"}
positions == {"top-left", "top-right", "bottom-left", "bottom-right", "center"}

\* The names the calls are made with: the keys, and some that are no key.
EffectArgs == effects \cup {"vintage", "Sepia"}
FilterArgs == filters \cup {"median", "BLUR"}
PositionArgs == positions \cup {"middle", "Center"}

\* The exceptions of the processors.
UnknownEffect == "ValueError: Unknown effect"
UnknownFilter == "ValueError: Unknown filter"
InvalidPosition == "ValueError: Invalid position"
CropExceeds == "ValueError: Crop dimensions exceed image size"

IdleProc ==
    /\ procPc = "idle" /\ procOp = "none" /\ procName = "none"
    /\ cropArgs = <<0, 0, 0, 0>> /\ cropBox = <<>>
    /\ loadFile = NoEntry
    /\ procCalls = <<>> /\ procError = "none" /\ procListed = {}

InitProc ==
    /\ procPc = "start" /\ procOp = "none" /\ procName = "none"
    /\ cropArgs = <<0, 0, 0, 0>> /\ cropBox = <<>>
    /\ loadFile = NoEntry
    /\ procCalls = <<>> /\ procError = "none" /\ procListed = {}

\* An image of any shape, of one colour.
InitPlainImage ==
    /\ \E wh \in Shapes, c \in SamplePixels :
          /\ imgW = wh[1] /\ imgH = wh[2]
          /\ imgPixels = [k \in 1..(wh[1] * wh[2]) |-> c]
    /\ imgOrig = imgPixels

\* The image is converted before the name is looked up.
EffectProcessConvertFirst(effect) ==
    /\ procPc = "start"
    /\ procOp' = "effect" /\ procName' = effect
    /\ IF effect \notin effects
          THEN /\ procError' = UnknownEffect
               /\ procListed' = effects
               /\ procCalls' = <<"image.convert">>
          ELSE /\ procError' = "none"
               /\ procListed' = {}
               /\ procCalls' = <<"image.convert", effect>>
    /\ procPc' = "done"
    /\ UNCHANGED <<imgVars, cropArgs, cropBox, loadFile>>
    /\ UNCHANGED notProc

\* EffectProcessor.process.
EffectProcess(effect) ==
    /\ procPc = "start"
    /\ procOp' = "effect" /\ procName' = effect
    /\ IF effect \notin effects
          THEN /\ procError' = UnknownEffect
               /\ procListed' = effects
               /\ procCalls' = <<>>
          ELSE /\ procError' = "none"
               /\ procListed' = {}
               /\ procCalls' = <<"image.convert", effect>>
    /\ procPc' = "done"
    /\ UNCHANGED <<imgVars, cropArgs, cropBox, loadFile>>
    /\ UNCHANGED notProc

\* FilterProcessor.process.
FilterProcess(filter_type) ==
    /\ procPc = "start"
    /\ procOp' = "filter" /\ procName' = filter_type
    /\ IF filter_type \notin filters
          THEN /\ procError' = UnknownFilter
               /\ procListed' = filters
               /\ procCalls' = <<>>
          ELSE /\ procError' = "none"
               /\ procListed' = {}
               /\ procCalls' = <<"image.filter">>
    /\ procPc' = "done"
    /\ UNCHANGED <<imgVars, cropArgs, cropBox, loadFile>>
    /\ UNCHANGED notProc

\* WatermarkProcessor.process: the overlay is created and the text measured
\* before the position is looked up.
WatermarkProcess(position) ==
    /\ procPc = "start"
    /\ procOp' = "watermark" /\ procName' = position
    /\ IF position \notin positions
          THEN /\ procError' = InvalidPosition
               /\ procListed' = positions
               /\ procCalls' = <<"Image.new", "ImageDraw.Draw", "_get_font",
                                 "draw.textbbox">>
          ELSE /\ procError' = "none"
               /\ procListed' = {}
               /\ procCalls' = <<"Image.new", "ImageDraw.Draw", "_get_font",
                                 "draw.textbbox", position, "draw.rectangle",
                                 "draw.text", "image.convert",
                                 "Image.alpha_composite">>
    /\ procPc' = "done"
    /\ UNCHANGED <<imgVars, cropArgs, cropBox, loadFile>>
    /\ UNCHANGED notProc

\* CropProcessor.process.
CropProcess(x, y, width, height) ==
    /\ procPc = "start"
    /\ procOp' = "crop" /\ cropArgs' = <<x, y, width, height>>
    /\ IF x + width > imgW \/ y + height > imgH
          THEN /\ procError' = CropExceeds
               /\ cropBox' = <<>>
               /\ procCalls' = <<>>
          ELSE /\ procError' = "none"
               /\ cropBox' = <<x, y, x + width, y + height>>
               /\ procCalls' = <<"image.crop">>
    /\ procPc' = "done"
    /\ UNCHANGED <<imgVars, procName, loadFile, procListed>>
    /\ UNCHANGED notProc

\* PillowCLI.load_image: Image.open is reached when validate_image_path
\* returns.
LoadImageCall(file) ==
    /\ procPc = "start"
    /\ procOp' = "load" /\ loadFile' = file
    /\ procError' = LoadImage(file)
    /\ procCalls' = IF ValidateImagePath(file) = "none" THEN <<"Image.open">>
                                                         ELSE <<>>
    /\ procPc' = "done"
    /\ UNCHANGED <<imgVars, procName, cropArgs, cropBox, procListed>>
    /\ UNCHANGED notProc

NextProc ==
    \/ \E effect \in EffectArgs : EffectProcess(effect)
    \/ \E filter_type \in FilterArgs : FilterProcess(filter_type)
    \/ \E position \in PositionArgs : WatermarkProcess(position)
    \/ \E x, y \in (0 - 1)..MaxCrop, width, height \in 0..MaxCrop :
          CropProcess(x, y, width, height)
    \/ \E file \in EntryKinds : LoadImageCall(file)

(***************************************************************************)
(* Part 8.  PillowCLI.process_image and save_image on one file.            *)
(*                                                                         *)
(* Of the image one pixel is followed, as <<level, alpha>>: the level of   *)
(* its colour channels (all equal) and its alpha, 255 in a mode without    *)
(* alpha.                                                                  *)
(***************************************************************************)

\* The modes of the images in the files, and the ones with an alpha channel.
Modes == {"RGB", "L", "RGBA", "LA"}
AlphaModes == {"RGBA", "LA"}

\* The pixels followed: alpha is 255 in a mode without alpha.
ModePixels(mode) ==
    IF mode \in AlphaModes THEN {0, 100} \X {0, 255} ELSE {0, 100} \X {255}

\* The processors process_image is called with here.
PiNames == {"format", "rotate", "flip", "bogus"}

\* The values of format_type and str.upper() on them.
FormatTypes == {"PNG", "JPEG", "jpeg"}
Upper(s) == IF s = "jpeg" THEN "JPEG" ELSE s

\* The suffixes of output_path.
OutSuffixes == {".jpg", ".JPG", ".jpeg", ".png"}

IdlePi ==
    /\ piPc = "idle" /\ piFile = NoEntry /\ piName = "none" /\ piArgsOK = TRUE
    /\ format_type = "PNG" /\ outSuffix = ".png"
    /\ srcMode = "RGB" /\ srcPixel = <<0, 255>>
    /\ resMode = "none" /\ resPixel = <<>>
    /\ encMode = "none" /\ encPixel = <<>>
    /\ piError = "none" /\ piCalls = <<>>

\* process_image is about to be called.
InitPi ==
    /\ piPc = "start"
    /\ piFile \in EntryKinds
    /\ piName \in PiNames
    /\ piArgsOK \in BOOLEAN
    /\ format_type \in FormatTypes
    /\ piName # "format" => format_type = "PNG"
    /\ outSuffix \in OutSuffixes
    /\ srcMode \in Modes
    /\ srcPixel \in ModePixels(srcMode)
    /\ resMode = "none" /\ resPixel = <<>>
    /\ encMode = "none" /\ encPixel = <<>>
    /\ piError = "none" /\ piCalls = <<>>

piInputs == <<piFile, piName, piArgsOK, format_type, outSuffix, srcMode, srcPixel>>

\* The input is loaded before the name of the processor is looked up.
PiLookupLate ==
    /\ piPc = "start"
    /\ IF piName \notin processors
          THEN piError' = "ValueError" /\ piPc' = "done"
                                       /\ piCalls' = <<"load_image">>
          ELSE piError' = piError /\ piPc' = "load" /\ piCalls' = piCalls
    /\ UNCHANGED <<piInputs, resMode, resPixel, encMode, encPixel>>
    /\ UNCHANGED notPi

\* process_image, lines 165-166.
PiLookup ==
    /\ piPc = "start"
    /\ IF piName \notin processors
          THEN piError' = "ValueError" /\ piPc' = "done"
          ELSE piError' = piError /\ piPc' = "load"
    /\ UNCHANGED <<piInputs, resMode, resPixel, encMode, encPixel, piCalls>>
    /\ UNCHANGED notPi

\* image = self.load_image(input_path)
PiLoad ==
    /\ piPc = "load"
    /\ piCalls' = Append(piCalls, "load_image")
    /\ piError' = LoadImage(piFile)
    /\ piPc' = IF LoadImage(piFile) = "none" THEN "process" ELSE "done"
    /\ UNCHANGED <<piInputs, resMode, resPixel, encMode, encPixel>>
    /\ UNCHANGED notPi

\* The level of a pixel pasted through a mask onto white: the blend of
\* Image.paste, (level * mask + 255 * (255 - mask)) / 255 rounded.
PasteOnWhite(level, alpha) ==
    LET tmp == level * alpha + 255 * (255 - alpha) + 128
    IN ((tmp \div 256) + tmp) \div 256

\* FormatProcessor.process: the mode and the pixel of converted_image.  An
\* RGBA image is pasted on white through its alpha; an LA image is pasted
\* without a mask, its alpha left out.
FormatProcess(mode, pixel, ft) ==
    IF Upper(ft) = "JPEG" /\ mode \in {"RGBA", "LA"}
       THEN IF mode = "RGBA"
               THEN [mode |-> "RGB", pixel |-> <<PasteOnWhite(pixel[1], pixel[2]), 255>>]
               ELSE [mode |-> "RGB", pixel |-> <<pixel[1], 255>>]
       ELSE [mode |-> mode, pixel |-> pixel]

\* result = processor.process(image, **kwargs): "format" as above, "rotate"
\* and "flip" keep the mode and the pixel; a processor that does not accept
\* its arguments raises.
PiProcess ==
    /\ piPc = "process"
    /\ piCalls' = Append(piCalls, "processor.process")
    /\ IF ~piArgsOK
          THEN /\ piError' = "ValueError"
               /\ piPc' = "done"
               /\ UNCHANGED <<resMode, resPixel>>
          ELSE /\ resMode' = IF piName = "format"
                                THEN FormatProcess(srcMode, srcPixel, format_type).mode
                                ELSE srcMode
               /\ resPixel' = IF piName = "format"
                                 THEN FormatProcess(srcMode, srcPixel, format_type).pixel
                                 ELSE srcPixel
               /\ piPc' = "save"
               /\ UNCHANGED piError
    /\ UNCHANGED <<piInputs, encMode, encPixel>>
    /\ UNCHANGED notPi

\* save_image, lines 144-147.
SaveMakedirs ==
    /\ piPc = "save"
    /\ piCalls' = Append(piCalls, "os.makedirs")
    /\ piPc' = "flatten"
    /\ UNCHANGED <<piInputs, resMode, resPixel, encMode, encPixel, piError>>
    /\ UNCHANGED notPi

\* save_image, lines 150-156: the image that will be handed to image.save.
SaveFlatten ==
    /\ piPc = "flatten"
    /\ IF Lower(outSuffix) \in {".jpg", ".jpeg"} /\ resMode = "RGBA"
          THEN /\ encMode' = "RGB"
               /\ encPixel' = <<PasteOnWhite(resPixel[1], resPixel[2]), 255>>
          ELSE /\ encMode' = resMode
               /\ encPixel' = resPixel
    /\ piPc' = "encode"
    /\ UNCHANGED <<piInputs, resMode, resPixel, piError, piCalls>>
    /\ UNCHANGED notPi

\* image.save(output_path, ...): the JPEG encoder refuses a mode with alpha.
SaveEncode ==
    /\ piPc = "encode"
    /\ piCalls' = Append(piCalls, "image.save")
    /\ piError' = IF Lower(outSuffix) \in {".jpg", ".jpeg"} /\ encMode \in AlphaModes
                     THEN "OSError" ELSE "none"
    /\ piPc' = "done"
    /\ UNCHANGED <<piInputs, resMode, resPixel, encMode, encPixel>>
    /\ UNCHANGED notPi

NextPi ==
    \/ PiLookup
    \/ PiLoad
    \/ PiProcess
    \/ SaveMakedirs
    \/ SaveFlatten
    \/ SaveEncode

(***************************************************************************)
(* Part 9.  EffectProcessor.process with the effect 'sepia', called on an  *)
(* RGB image and then once more on the image it returned.                  *)
(***************************************************************************)

IdleEff == callerPixels = <<>> /\ aliased = FALSE /\ pass = 0

\* process is about to be called with effect = 'sepia'.
InitEff ==
    /\ sx = 0 /\ sy = 0 /\ sepPc = "call"
    /\ callerPixels = imgPixels
    /\ aliased = FALSE
    /\ pass = 1

\* The pixels of the image object the caller passed to process.
CallerImage == IF aliased THEN imgPixels ELSE callerPixels

\* _apply_sepia is given the image itself.
EffectSepiaCallSameObject ==
    /\ sepPc = "call"
    /\ sepPc' = "loop"
    /\ aliased' = TRUE
    /\ UNCHANGED <<imgVars, sx, sy, callerPixels, pass>>
    /\ UNCHANGED notEff

\* process, lines 246-249, up to the call of _apply_sepia: 'sepia' is a known
\* effect, and image.convert('RGB') is a new image object with the pixels of
\* image, which is what _apply_sepia is given.
EffectSepiaCall ==
    /\ sepPc = "call"
    /\ sepPc' = "loop"
    /\ aliased' = FALSE
    /\ UNCHANGED <<imgVars, sx, sy, callerPixels, pass>>
    /\ UNCHANGED notEff

\* return processed_image
EffectSepiaReturn ==
    /\ sepPc = "done"
    /\ sepPc' = "returned"
    /\ UNCHANGED <<imgVars, sx, sy, effVars>>
    /\ UNCHANGED notEff

\* The caller passes the returned image to process again.
EffectSepiaAgain ==
    /\ sepPc = "returned"
    /\ pass = 1
    /\ pass' = 2
    /\ callerPixels' = imgPixels
    /\ imgOrig' = imgPixels
    /\ sx' = 0 /\ sy' = 0
    /\ sepPc' = "call"
    /\ UNCHANGED <<imgW, imgH, imgPixels, aliased>>
    /\ UNCHANGED notEff

NextEff ==
    \/ EffectSepiaCall
    \/ ApplySepiaStep
    \/ ApplySepiaReturn
    \/ EffectSepiaReturn
    \/ EffectSepiaAgain

(***************************************************************************)
(* Part 10.  PillowGUI.apply_operation_to_image, as called by              *)
(* update_preview (for_preview) and by the GUI's process_image.            *)
(***************************************************************************)

\* The values of the operation combobox, which is read-only.
Operations ==
    {"Resize", "Blur", "Sharpen", "Edge Enhance", "Emboss", "Find Edges",
     "Smooth", "Contour", "Detail", "Adjust", "Crop", "Rotate", "Flip",
     "Watermark", "Border", "Vignette", "Sepia", "Grayscale", "Invert",
     "Posterize", "Solarize", "Thumbnail"}

\* The key of self.cli.processors that the branch of an operation looks up.
GuiKey(op) ==
    CASE op = "Resize" -> "resize"
      [] op \in {"Blur", "Sharpen", "Edge Enhance", "Emboss",
                        "Find Edges", "Smooth", "Contour", "Detail"} -> "filter"
      [] op = "Adjust" -> "adjustment"
      [] op = "Crop" -> "crop"
      [] op = "Rotate" -> "rotate"
      [] op = "Flip" -> "flip"
      [] op = "Watermark" -> "watermark"
      [] op = "Border" -> "border"
      [] op = "Vignette" -> "vignette"
      [] op \in {"Sepia", "Grayscale", "Invert", "Posterize",
                        "Solarize"} -> "effect"
      [] op = "Thumbnail" -> "thumbnail"
      [] OTHER -> "none"

IdleGui ==
    /\ guiPc = "idle" /\ guiOperation = "none" /\ for_preview = FALSE
    /\ guiParamsOK = TRUE /\ guiKey = "none" /\ guiCalls = <<>>
    /\ guiError = "none"

\* apply_operation_to_image is about to be called on the selected operation.
InitGui ==
    /\ guiPc = "start"
    /\ guiOperation \in Operations
    /\ for_preview \in BOOLEAN
    /\ guiParamsOK \in BOOLEAN
    /\ guiKey = "none" /\ guiCalls = <<>> /\ guiError = "none"

\* params = self.get_operation_parameters(), outside the try: fields that do
\* not parse raise ValueError; then processed_image = image.copy().
GuiParameters ==
    /\ guiPc = "start"
    /\ guiCalls' = Append(guiCalls, "get_operation_parameters")
    /\ IF guiParamsOK
          THEN guiPc' = "lookup" /\ guiError' = guiError
          ELSE guiPc' = "done" /\ guiError' = "ValueError"
    /\ UNCHANGED <<guiOperation, for_preview, guiParamsOK, guiKey>>
    /\ UNCHANGED imgVars
    /\ UNCHANGED notGui

\* processor = self.cli.processors[...] in the branch of the operation: a key
\* that is not registered raises KeyError, which leaves as it is for the
\* preview and as ValueError otherwise.
GuiLookup ==
    /\ guiPc = "lookup"
    /\ guiKey' = GuiKey(guiOperation)
    /\ IF GuiKey(guiOperation) \in processors
          THEN guiPc' = "process" /\ guiError' = guiError
          ELSE /\ guiPc' = "done"
               /\ guiError' = IF for_preview THEN "KeyError" ELSE "ValueError"
    /\ UNCHANGED <<guiOperation, for_preview, guiParamsOK, guiCalls>>
    /\ UNCHANGED imgVars
    /\ UNCHANGED notGui

\* processed_image = processor.process(processed_image, **params), which
\* returns or raises; return processed_image.
GuiProcess(raises) ==
    /\ guiPc = "process"
    /\ guiCalls' = Append(guiCalls, guiKey)
    /\ guiError' = IF ~raises THEN "none"
                   ELSE IF for_preview THEN "ProcessorError" ELSE "ValueError"
    /\ guiPc' = "done"
    /\ UNCHANGED <<guiOperation, for_preview, guiParamsOK, guiKey>>
    /\ UNCHANGED imgVars
    /\ UNCHANGED notGui

NextGui ==
    \/ GuiParameters
    \/ GuiLookup
    \/ \E raises \in BOOLEAN : GuiProcess(raises)

(***************************************************************************)
(* Part 11.  ResizeProcessor.process.                                      *)
(*                                                                         *)
(* The aspect ratio, the quotients and the products are Python floats; the *)
(* operators below extend the binary64 arithmetic of Part 2 by the two     *)
(* divisions, each rounded once to nearest, ties to even.  All the values  *)
(* lie between 2^-7 and 2^8.                                               *)
(***************************************************************************)

\* The sizes of the image and the requested sizes run up to MaxResize.
MaxResize == 6

\* x >= y on limbs.
BigGeq(x, y) ==
    IF x[4] # y[4] THEN x[4] > y[4]
    ELSE IF x[3] # y[3] THEN x[3] > y[3]
    ELSE IF x[2] # y[2] THEN x[2] > y[2]
    ELSE x[1] >= y[1]

\* The digits of the quotients are taken four bits at a time.
DigitBase == 16

\* The greatest digit n < DigitBase with d * n <= rem.
QuotientDigit(rem, d) ==
    Cardinality({n \in 1..(DigitBase - 1) : BigGeq(rem, BigMulSmall(d, n))})

\* x with the digit n added at the place k (of weight 16^(k-15)), 0 <= k < 15.
AddDigit(x, k, n) ==
    [x EXCEPT ![((4 * k) \div 20) + 1] = @ + n * Pow2((4 * k) % 20)]

\* The integer part of rem / d, for rem < 256 * d, by long division, digits
\* k down to 0: <<the quotient, the remainder>>.
RECURSIVE DivInteger(_, _, _, _)
DivInteger(rem, d, k, q) ==
    IF k < 0 THEN <<q, rem>>
    ELSE LET t == BigMulSmall(d, Pow2(4 * k))
             n == QuotientDigit(rem, t)
         IN DivInteger(BigSub(rem, BigMulSmall(t, n)), d, k - 1,
                       q + n * Pow2(4 * k))

\* The fraction digits k down to 0 of the quotient, for a remainder rem < d:
\* <<the quotient, the remainder>>.
RECURSIVE DivFraction(_, _, _, _)
DivFraction(rem, d, k, q) ==
    IF k < 0 THEN <<q, rem>>
    ELSE LET r16 == BigMulSmall(rem, DigitBase)
             n   == QuotientDigit(r16, d)
         IN DivFraction(BigSub(r16, BigMulSmall(d, n)), d, k - 1,
                        AddDigit(q, k, n))

\* x / y for floats x < 2^8 * y: the quotient to 60 fraction bits, with what
\* is left below them as the sticky bit, rounded to binary64.
FloatDiv(x, y) ==
    LET int  == DivInteger(x, y, 1, 0)
        frac == DivFraction(int[2], y, 14, <<0, 0, 0, int[1]>>)
    IN Round53(frac[1], frac[2] # FloatZero)

\* float(n) of a small natural number.
FloatOfInt(n) == <<0, 0, 0, n>>

\* a / b of two ints: the binary64 nearest to the quotient.
IntTrueDiv(a, b) == FloatDiv(FloatOfInt(a), FloatOfInt(b))

\* x > y of two floats.
FloatGt(x, y) == ~BigGeq(y, x)

\* new_size as lines 27-44 compute it (0 for None), or <<>> where line 46
\* raises.
ResizeNewSize(ow, oh, width, height, maintain) ==
    IF width # 0 /\ height # 0
       THEN IF maintain
               THEN LET aspect_ratio == IntTrueDiv(ow, oh)
                    IN IF FloatGt(IntTrueDiv(width, height), aspect_ratio)
                          THEN <<FloatToInt(FloatMulInt(aspect_ratio, height)), height>>
                          ELSE <<width,
                                 FloatToInt(FloatDiv(FloatOfInt(width), aspect_ratio))>>
               ELSE <<width, height>>
    ELSE IF width # 0
       THEN <<width, FloatToInt(FloatMulInt(IntTrueDiv(oh, ow), width))>>
    ELSE IF height # 0
       THEN <<FloatToInt(FloatMulInt(IntTrueDiv(ow, oh), height)), height>>
    ELSE <<>>

IdleRsz ==
    /\ rszPc = "idle" /\ original_width = 0 /\ original_height = 0
    /\ reqW = 0 /\ reqH = 0 /\ maintain_aspect = TRUE
    /\ new_size = <<>> /\ rszError = "none"

\* process is about to be called on an image of some size.
InitRsz ==
    /\ rszPc = "start"
    /\ original_width \in 1..MaxResize
    /\ original_height \in 1..MaxResize
    /\ reqW \in 0..MaxResize
    /\ reqH \in 0..MaxResize
    /\ maintain_aspect \in BOOLEAN
    /\ new_size = <<>> /\ rszError = "none"

\* Lines 25-46: new_size, or the ValueError of line 46.
ResizeComputeSize ==
    /\ rszPc = "start"
    /\ new_size' = ResizeNewSize(original_width, original_height, reqW, reqH,
                                 maintain_aspect)
    /\ IF reqW = 0 /\ reqH = 0
          THEN rszPc' = "done" /\ rszError' = "ValueError"
          ELSE rszPc' = "resize" /\ rszError' = rszError
    /\ UNCHANGED <<original_width, original_height, reqW, reqH, maintain_aspect>>
    /\ UNCHANGED notRsz

\* image.resize(new_size, LANCZOS), which refuses a size with a side below 1,
\* and the return.
ResizeCall ==
    /\ rszPc = "resize"
    /\ rszError' = IF new_size[1] < 1 \/ new_size[2] < 1
                      THEN "ValueError" ELSE "none"
    /\ rszPc' = "done"
    /\ UNCHANGED <<original_width, original_height, reqW, reqH, maintain_aspect,
                   new_size>>
    /\ UNCHANGED notRsz

NextRsz ==
    \/ ResizeComputeSize
    \/ ResizeCall

(***************************************************************************)
(* Specifications.                                                         *)
(***************************************************************************)
NextCli ==
    \/ \E cmd \in DOMAIN SingleCommands, file \in EntryKinds, argsOK \in BOOLEAN :
          MainSingle(cmd, file, argsOK)
    \/ \E file \in EntryKinds : MainMetadata(file)
    \/ \E n \in 1..2, argsOK \in BOOLEAN :
          \E files \in [1..n -> EntryKinds] : MainCollage(files, argsOK)
    \/ \E listing \in Listings, op \in DOMAIN operation_map, argsOK \in BOOLEAN :
          MainBatch(TRUE, listing, op, argsOK)
    \/ \E op \in DOMAIN operation_map : MainBatch(FALSE, EmptyListing, op, TRUE)
    \/ \E listing \in Listings, op \in DOMAIN operation_map \cup {"bogus"},
          argsOK \in BOOLEAN : ApiBatch(TRUE, listing, op, argsOK)
    \/ \E op \in DOMAIN operation_map \cup {"bogus"} :
          ApiBatch(FALSE, EmptyListing, op, TRUE)
    \/ ProcessDirectoryEnter
    \/ BatchIteration
    \/ BatchFinish
    \/ MainBatchEnd

\* The command line and the batch run.
Init == InitCli /\ IdleImage /\ IdleSepia /\ IdleHist /\ IdlePal /\ IdleLay
    /\ IdleVig /\ IdleProc
    /\ IdlePi /\ IdleEff /\ IdleRsz /\ IdleGui
Spec ==
    /\ Init
    /\ [][NextCli]_vars

\* _apply_sepia on an image.
InitSpecSepia ==
    InitCli /\ InitImage /\ InitSepia /\ IdleHist /\ IdlePal /\ IdleLay
    /\ IdleVig /\ IdleProc
    /\ IdlePi /\ IdleEff /\ IdleRsz /\ IdleGui
SpecSepia ==
    /\ InitSpecSepia
    /\ [][NextSepia]_vars

\* analyze_histogram on an image.
InitSpecHistogram ==
    InitCli /\ InitSampleImage /\ IdleSepia /\ InitHist /\ IdlePal /\ IdleLay
    /\ IdleVig /\ IdleProc
    /\ IdlePi /\ IdleEff /\ IdleRsz /\ IdleGui
SpecHistogram ==
    /\ InitSpecHistogram
    /\ [][NextHist]_vars

\* extract_color_palette on an array of analysed pixels.
InitSpecPalette ==
    InitCli /\ IdleImage /\ IdleSepia /\ IdleHist /\ InitPal /\ IdleLay
    /\ IdleVig /\ IdleProc
    /\ IdlePi /\ IdleEff /\ IdleRsz /\ IdleGui
SpecPalette ==
    /\ InitSpecPalette
    /\ [][NextPal]_vars

\* create_collage and create_contact_sheet on a list of images.
InitSpecLayout ==
    InitCli /\ IdleImage /\ IdleSepia /\ IdleHist /\ IdlePal /\ InitLay
    /\ IdleVig /\ IdleProc
    /\ IdlePi /\ IdleEff /\ IdleRsz /\ IdleGui
SpecLayout ==
    /\ InitSpecLayout
    /\ [][NextLay]_vars

\* VignetteProcessor.process on an image.
InitSpecVignette ==
    InitCli /\ InitVigImage /\ IdleSepia /\ IdleHist /\ IdlePal /\ IdleLay
    /\ InitVig /\ IdleProc
    /\ IdlePi /\ IdleEff /\ IdleRsz /\ IdleGui
SpecVignette ==
    /\ InitSpecVignette
    /\ [][NextVig]_vars

\* One call of a processor, or of load_image.
InitSpecProcessors ==
    InitCli /\ InitPlainImage /\ IdleSepia /\ IdleHist /\ IdlePal /\ IdleLay
    /\ IdleVig /\ InitProc
    /\ IdlePi /\ IdleEff /\ IdleRsz /\ IdleGui
SpecProcessors ==
    /\ InitSpecProcessors
    /\ [][NextProc]_vars

\* PillowCLI.process_image on one file.
InitSpecPipeline ==
    InitCli /\ IdleImage /\ IdleSepia /\ IdleHist /\ IdlePal /\ IdleLay
    /\ IdleVig /\ IdleProc
    /\ InitPi /\ IdleEff /\ IdleRsz /\ IdleGui
SpecPipeline ==
    /\ InitSpecPipeline
    /\ [][NextPi]_vars

\* EffectProcessor.process with 'sepia', twice.
InitSpecEffect ==
    InitCli /\ InitImage /\ InitEff /\ IdleHist /\ IdlePal /\ IdleLay
    /\ IdleVig /\ IdleProc
    /\ IdlePi /\ IdleRsz /\ IdleGui
SpecEffect ==
    /\ InitSpecEffect
    /\ [][NextEff]_vars

\* ResizeProcessor.process on an image of some size.
InitSpecResize ==
    InitCli /\ IdleImage /\ IdleSepia /\ IdleHist /\ IdlePal /\ IdleLay
    /\ IdleVig /\ IdleProc
    /\ IdlePi /\ IdleEff /\ InitRsz /\ IdleGui
SpecResize ==
    /\ InitSpecResize
    /\ [][NextRsz]_vars

\* PillowGUI.apply_operation_to_image on the selected operation.
InitSpecGui ==
    InitCli /\ IdleImage /\ IdleSepia /\ IdleHist /\ IdlePal /\ IdleLay
    /\ IdleVig /\ IdleProc
    /\ IdlePi /\ IdleEff /\ IdleRsz /\ InitGui
SpecGui ==
    /\ InitSpecGui
    /\ [][NextGui]_vars

(***************************************************************************)
(* Properties.                                                             *)
(***************************************************************************)

\* C1: once the batch loop is entered, every recognised image file is
\* attempted exactly once, whichever files fail: while the loop runs, the
\* files before the loop position have been attempted once and the others
\* not yet; when the run has ended, every image file of the directory has
\* been attempted once and nothing else has been attempted.
C1_EachFileAttemptedOnce ==
    /\ pc = "batch_loop" =>
          \A j \in 1..Len(image_files) :
              attempts[image_files[j]] = IF j < idx THEN 1 ELSE 0
    /\ (loopEntered /\ pc \in {"batch_returned", "batch_raised", "exited"}) =>
          \A n \in Names :
              attempts[n] = IF n \in FindImageFilesUnsorted(dirListing) THEN 1 ELSE 0

\* A run has returned in which a file failed and a later file was attempted.
C1_Witness ==
    /\ pc = "batch_returned"
    /\ \E i, j \in 1..Len(image_files) :
          /\ i < j
          /\ image_files[i] \in raisedNames
          /\ attempts[image_files[j]] = 1

\* C2: at every step of the loop 0 <= processed_count <= N and
\* processed_count is the number of files attempted so far that raised no
\* exception; the summary printed at the end reports that number for all N
\* files, and N as the total.
C2_SuccessCount ==
    /\ loopEntered =>
          /\ processed_count \in 0..Len(image_files)
          /\ processed_count =
                Cardinality({j \in 1..(idx - 1) : image_files[j] \notin raisedNames})
    /\ \A i \in 1..Len(printed) :
          printed[i].msg = "Successfully processed" =>
              /\ printed[i].a =
                    Cardinality(FindImageFilesUnsorted(dirListing) \ raisedNames)
              /\ printed[i].b = Cardinality(FindImageFilesUnsorted(dirListing))
              /\ printed[i].b = Len(image_files)

\* A summary has been printed of a run in which some files failed and some
\* did not.
C2_Witness ==
    \E i \in 1..Len(printed) :
        /\ printed[i].msg = "Successfully processed"
        /\ 0 < printed[i].a
        /\ printed[i].a < printed[i].b

\* C3: when main() has ended, the exit code is 1 and an error message was
\* printed if a failure occurred during the command, and the exit code is 0
\* only if none occurred.
C3_ExitCodeTellsFailure ==
    pc = "exited" =>
        /\ failureOccurred =>
              /\ exitCode = 1
              /\ \E i \in 1..Len(printed) :
                    printed[i].msg \in {"Error", "Error processing"}
        /\ exitCode = 0 => ~failureOccurred

\* The sepia matrix in exact arithmetic: trunc of the real number
\* (ca*r + cb*g + cc*b) / 1000, the coefficients in thousandths.
ExactRow(ca, cb, cc, p) == (ca * p[1] + cb * p[2] + cc * p[3]) \div 1000
ExactSepia(p) ==
    <<Min(255, ExactRow(393, 769, 189, p)),
      Min(255, ExactRow(349, 686, 168, p)),
      Min(255, ExactRow(272, 534, 131, p))>>

\* C4: when the sepia loop has ended, every pixel holds
\* (min(255, trunc(0.393r+0.769g+0.189b)), min(255, trunc(0.349r+0.686g+0.168b)),
\* min(255, trunc(0.272r+0.534g+0.131b))) of its own old value (r, g, b).
C4_SepiaFormula ==
    sepPc = "done" =>
        \A i \in DOMAIN imgPixels : imgPixels[i] = ExactSepia(imgOrig[i])

\* C5: every channel of every pixel the sepia loop has written is an integer
\* in 0..255 (as is every channel it has not yet written).
C5_SepiaChannelsInRange ==
    \A i \in DOMAIN imgPixels :
        \A c \in 1..3 : imgPixels[i][c] \in 0..255

\* The loop has ended on an image with a pixel whose red sum exceeds 255 and
\* was clamped.
C5_Witness ==
    /\ sepPc = "done"
    /\ \E i \in DOMAIN imgPixels :
          /\ SepiaPixelNoClamp(imgOrig[i])[1] > 255
          /\ imgPixels[i][1] = 255

\* C6: when analyze_histogram returns, the red, green and blue sequences
\* have 256 entries each and each sums to total_pixels = width * height.
C6_HistogramSums ==
    (histPc = "done" /\ histError = "none") =>
        /\ histogram_data.total_pixels = imgW * imgH
        /\ \A ch \in {histogram_data.red_channel, histogram_data.green_channel,
                      histogram_data.blue_channel} :
              /\ Len(ch) = 256
              /\ SumSeq(ch) = histogram_data.total_pixels

\* analyze_histogram has returned for an image of several pixels, some of
\* them of red level 255 and some of red level 0.
C6_Witness ==
    /\ histPc = "done" /\ histError = "none"
    /\ imgW * imgH >= 2
    /\ histogram_data.red_channel[256] >= 1
    /\ histogram_data.red_channel[1] >= 1

\* C7: analyze_histogram on an image without pixels ends with the EmptyImage
\* error.
C7_EmptyImageError ==
    (histPc = "done" /\ imgW * imgH = 0) => histError = "EmptyImage"

\* How often a colour occurs among the analysed pixels, and where it is
\* first met in row-major order.
Occurrences(c) == Cardinality({i \in DOMAIN palPixels : palPixels[i] = c})
FirstMet(c) ==
    CHOOSE i \in DOMAIN palPixels :
        palPixels[i] = c /\ \A j \in 1..(i - 1) : palPixels[j] # c

\* C8: on the fallback path the colours are returned in non-increasing order
\* of their pixel count, and of two colours of equal count the one met first
\* in the row-major traversal comes first.
C8_FallbackOrder ==
    (palPc = "done" /\ palPath = "frequency") =>
        \A i, j \in 1..Len(palResult) :
            i < j =>
                \/ Occurrences(palResult[i]) > Occurrences(palResult[j])
                \/ /\ Occurrences(palResult[i]) = Occurrences(palResult[j])
                   /\ FirstMet(palResult[i]) < FirstMet(palResult[j])

\* The fallback path has returned a palette holding two colours of equal
\* count behind a more frequent colour that was met after one of them.
C8_Witness ==
    /\ palPc = "done" /\ palPath = "frequency"
    /\ Len(palResult) >= 3
    /\ Occurrences(palResult[1]) > Occurrences(palResult[2])
    /\ Occurrences(palResult[2]) = Occurrences(palResult[3])
    /\ FirstMet(palResult[2]) < FirstMet(palResult[1])

\* C9: on the fallback path, for num_colors >= 1, the palette has exactly
\* min(num_colors, number of distinct colours) entries, no two of them equal,
\* and no error leaves the call.
C9_FallbackSize ==
    (palPc = "done" /\ palPath = "frequency") =>
        /\ palError = "none"
        /\ Len(palResult) =
              Min(num_colors, Cardinality({palPixels[i] : i \in DOMAIN palPixels}))
        /\ \A i, j \in 1..Len(palResult) : i # j => palResult[i] # palResult[j]

\* The fallback path has returned one swatch for a solid-colour array of
\* several pixels with num_colors > 1.
C9_Witness ==
    /\ palPc = "done" /\ palPath = "frequency"
    /\ num_colors > 1
    /\ Len(palPixels) > 1
    /\ Cardinality({palPixels[i] : i \in DOMAIN palPixels}) = 1
    /\ Len(palResult) = 1

\* C10: without the clustering capability the call ends without an error and
\* returns the frequency count's result (the most frequent colours of the
\* array, each counted over the whole array); with it the frequency count is
\* never run and the truncated centroids are returned.
C10_TransparentFallback ==
    /\ sklearnAvailable => palPath # "frequency" /\ unique_colors = <<>>
    /\ palPc = "done" =>
          /\ palError = "none"
          /\ IF sklearnAvailable
                THEN /\ palPath = "kmeans"
                     /\ palResult = [i \in 1..num_colors |->
                                        <<AsTypeInt(cluster_centers[i][1]),
                                          AsTypeInt(cluster_centers[i][2]),
                                          AsTypeInt(cluster_centers[i][3])>>]
                ELSE /\ palPath = "frequency"
                     /\ cluster_centers = <<>>
                     /\ \A i \in 1..Len(unique_colors) :
                           unique_colors[i].count = Occurrences(unique_colors[i].color)
                     /\ {unique_colors[i].color : i \in 1..Len(unique_colors)} =
                           {palPixels[i] : i \in DOMAIN palPixels}
                     /\ palResult = TopColors(SortedByCount(unique_colors), num_colors)

\* The call has returned a palette by the frequency count, the clustering
\* capability missing.
C10_Witness ==
    /\ palPc = "done"
    /\ ~sklearnAvailable
    /\ palError = "none"
    /\ Len(palResult) >= 2

\* The least number of rows of c columns that hold n items: ceil(n / c).
Ceil(n, c) == CHOOSE r \in 0..n : r * c >= n /\ \A q \in 0..n : q * c >= n => r <= q

\* The collage has been laid out: its grid is computed and no error left.
CollageLaidOut ==
    /\ layKind = "collage"
    /\ layPc \in {"collage_paste", "returned", "done"}
    /\ layError = "none"

\* C11: for n_items >= 1, cols >= 1 and padding >= 0, create_collage uses
\* rows = ceil(n_items / cols), cells of the greatest input width and the
\* greatest input height, a canvas of cols*cell_w + (cols+1)*padding by
\* rows*cell_h + (rows+1)*padding, and pastes item i, of row i div cols and
\* column i mod cols, at (col*(cell_w+padding)+padding,
\* row*(cell_h+padding)+padding); when it returns every item is pasted.
C11_CollageLayout ==
    (CollageLaidOut /\ Len(layInput) >= 1 /\ cols >= 1 /\ padding >= 0) =>
        /\ rows = Ceil(Len(layInput), cols)
        /\ \E k \in DOMAIN layInput : layInput[k][1] = cellW
        /\ \A k \in DOMAIN layInput : layInput[k][1] <= cellW
        /\ \E k \in DOMAIN layInput : layInput[k][2] = cellH
        /\ \A k \in DOMAIN layInput : layInput[k][2] <= cellH
        /\ canvasW = cols * cellW + (cols + 1) * padding
        /\ canvasH = rows * cellH + (rows + 1) * padding
        /\ \A k \in DOMAIN pastes :
              /\ pastes[k].x = ((k - 1) % cols) * (cellW + padding) + padding
              /\ pastes[k].y = ((k - 1) \div cols) * (cellH + padding) + padding
        /\ Len(pastes) = IF layPc = "collage_paste" THEN layI ELSE Len(layInput)

\* A collage of five images in two columns (the last row is not full) has
\* returned.
C11_Witness ==
    /\ CollageLaidOut /\ layPc = "returned"
    /\ Len(layInput) = 5 /\ cols = 2 /\ padding = 1
    /\ Len(pastes) = 5 /\ rows = 3

\* Box b lies wholly within the canvas.
InsideCanvas(b) ==
    /\ b.x >= 0 /\ b.y >= 0
    /\ b.x + b.w <= canvasW /\ b.y + b.h <= canvasH

\* Boxes a and b share a pixel.
Overlap(a, b) ==
    /\ Max(a.x, b.x) < Min(a.x + a.w, b.x + b.w)
    /\ Max(a.y, b.y) < Min(a.y + a.h, b.y + b.h)

LayEnded == layPc = "done" \/ (layPc = "returned" /\ layCaller = "direct")

\* C13: on both the collage and the contact-sheet path an empty list of
\* items is rejected with the error "no input images", before any layout
\* arithmetic and before any output is written, through PillowCLI as well
\* as when the creator classes are called directly.
C13_EmptyListRejected ==
    Len(layInput) = 0 =>
        /\ ~layArith
        /\ ~layOutput
        /\ LayEnded => layError = NoInputImages

\* The cell of thumbnail k (counted from 1) on the contact sheet.
SheetCell(k) ==
    [x |-> ((k - 1) % cols) * (cellW + margin) + margin,
     y |-> ((k - 1) \div cols) * (cellH + margin) + margin,
     w |-> cellW, h |-> cellH]

\* Box b lies wholly within box c, centred on each axis where it is smaller:
\* the gaps before and after it differ by at most one pixel.
InsideCentred(b, c) ==
    /\ b.x >= c.x /\ b.x + b.w <= c.x + c.w
    /\ b.y >= c.y /\ b.y + b.h <= c.y + c.h
    /\ (c.x + c.w) - (b.x + b.w) - (b.x - c.x) \in {0, 1}
    /\ (c.y + c.h) - (b.y + b.h) - (b.y - c.y) \in {0, 1}

\* cols = min(4, n) and the thumb box is the greatest square side t with
\* cols*t + margin*(cols+1) <= sheet_width.
SheetGridAsStated ==
    /\ cols = IF Len(layInput) <= 4 THEN Len(layInput) ELSE 4
    /\ cellH = cellW
    /\ cols * cellW + margin * (cols + 1) <= sheet_width
    /\ cols * (cellW + 1) + margin * (cols + 1) > sheet_width

\* Every thumbnail pasted so far lies centred in its own cell, every such
\* cell lies in the sheet and no two of them overlap.
SheetPastesAsStated ==
    \A j, k \in DOMAIN pastes :
        /\ InsideCentred(pastes[j], SheetCell(j))
        /\ InsideCanvas(SheetCell(j))
        /\ j # k => ~Overlap(SheetCell(j), SheetCell(k))

\* C14 as stated: for every n >= 1, sheet_width >= 0 and margin >= 0 the
\* contact sheet is made with cols = min(4, n) and a thumb box of side
\* (sheet_width - margin*(cols+1)) div cols, every thumbnail pasted wholly
\* inside its own cell, centred, the cells inside the sheet and disjoint.
C14_SheetLayoutAnyWidth ==
    (layKind = "sheet" /\ LayEnded /\ Len(layInput) >= 1) =>
        /\ layError = "none"
        /\ SheetGridAsStated
        /\ Len(pastes) = Len(layInput)
        /\ SheetPastesAsStated

\* C14, amended: the grid is as stated for every n >= 1, sheet_width >= 0
\* and margin >= 0; when the thumb box has at least one pixel a side
\* (sheet_width >= margin*(cols+1) + cols) the call returns with every
\* thumbnail pasted wholly inside its own cell, centred, the cells inside
\* the sheet and disjoint; when it has none, the call fails and nothing is
\* pasted.
C14_SheetLayout ==
    (/\ layKind = "sheet" /\ Len(layInput) >= 1
     /\ layPc \in {"sheet_paste", "returned", "done"}) =>
        /\ SheetGridAsStated
        /\ cellW >= 1 =>
              /\ layError = "none"
              /\ SheetPastesAsStated
              /\ Len(pastes) = IF layPc = "sheet_paste" THEN layI
                                                        ELSE Len(layInput)
        /\ cellW <= 0 =>
              /\ pastes = <<>>
              /\ LayEnded => layError \in {DivisionByZero, BadImageSize}

\* A contact sheet of five images (two rows of four columns) has returned,
\* one thumbnail narrower than its cell and one lower.
C14_Witness ==
    /\ layKind = "sheet" /\ layPc = "returned"
    /\ Len(layInput) = 5 /\ rows = 2 /\ cellW >= 2 /\ margin >= 1
    /\ \E k \in DOMAIN pastes : pastes[k].w < cellW
    /\ \E k \in DOMAIN pastes : pastes[k].h < cellH
    /\ \E k \in DOMAIN pastes : laySizes[k] # layInput[k]

\* C15: with strength 0.0 the vignette mask is uniform, for every image
\* size: when the loop has ended, the least and the greatest alpha of the
\* mask are equal.
C15_MaskUniformAtZero ==
    (strength = 0 /\ vigPc \in {"loop", "done"} /\ vigI >= steps) =>
        \A j, k \in DOMAIN mask : mask[j] = mask[k]

\* C16: a vignette of strength 0 has no visible effect: every pixel of the
\* result has the colour of the pixel of the input.
C16_NoEffectAtZero ==
    (strength = 0 /\ vigPc = "done") =>
        \A k \in DOMAIN vigResult :
            <<vigResult[k][1], vigResult[k][2], vigResult[k][3]>> = imgOrig[k]

\* The calls that convert the image passed to a processor or work on its
\* pixels.
TouchesImage(call) ==
    call \in {"image.convert", "image.filter", "image.crop",
              "Image.alpha_composite", "sepia", "grayscale", "invert",
              "posterize", "solarize"}

\* C17: EffectProcessor.process with a name outside {sepia, grayscale,
\* invert, posterize, solarize} fails with the error of an unknown effect,
\* whose message lists exactly these names, before the image is converted
\* or touched; likewise FilterProcessor with an unknown filter name and
\* WatermarkProcessor with an unknown position; a known name raises none
\* of these errors.
C17_UnknownNameFailsFast ==
    /\ (procPc = "done" /\ procOp = "effect") =>
          IF procName \in {"sepia", "grayscale", "invert", "posterize", "solarize"}
             THEN procError = "none"
             ELSE /\ procError = UnknownEffect
                  /\ procListed = {"sepia", "grayscale", "invert", "posterize",
                                   "solarize"}
                  /\ \A k \in DOMAIN procCalls : ~TouchesImage(procCalls[k])
    /\ (procPc = "done" /\ procOp = "filter") =>
          IF procName \in filters
             THEN procError = "none"
             ELSE /\ procError = UnknownFilter
                  /\ procListed = filters
                  /\ \A k \in DOMAIN procCalls : ~TouchesImage(procCalls[k])
    /\ (procPc = "done" /\ procOp = "watermark") =>
          IF procName \in positions
             THEN procError = "none"
             ELSE /\ procError = InvalidPosition
                  /\ procListed = positions
                  /\ \A k \in DOMAIN procCalls : ~TouchesImage(procCalls[k])
    /\ imgPixels = imgOrig

\* An effect under a name that differs from a key only by its case has been
\* refused.
C17_Witness ==
    /\ procPc = "done" /\ procOp = "effect" /\ procName = "Sepia"
    /\ procError = UnknownEffect /\ procCalls = <<>>
    /\ imgW * imgH > 0

\* C18: CropProcessor.process fails with the error of an invalid crop for
\* every rectangle that exceeds the W x H image on any side (x < 0, y < 0,
\* x + width > W or y + height > H), and crops exactly the rectangles that
\* lie wholly inside.
C18_CropRejectsOutside ==
    (procPc = "done" /\ procOp = "crop") =>
        LET x == cropArgs[1]
            y == cropArgs[2]
            width == cropArgs[3]
            height == cropArgs[4]
            outside == x < 0 \/ y < 0 \/ x + width > imgW \/ y + height > imgH
        IN /\ outside => (procError = CropExceeds /\ cropBox = <<>>)
           /\ ~outside => (procError = "none"
                           /\ cropBox = <<x, y, x + width, y + height>>)

\* The suffixes of Suffixes that are, in whatever case, a supported format.
RecognisedSuffix(s) ==
    s \in {".jpg", ".JPG", ".jpeg", ".png", ".PNG", ".bmp", ".gif", ".tiff",
           ".webp"}

\* C19: load_image fails with FileNotFoundError when the path does not
\* exist (whatever its extension: existence is checked first), with the
\* error of an unsupported format when the path exists and its extension,
\* compared without regard to case, is not a supported one; the file is
\* opened exactly when both checks pass.
C19_LoadImageChecks ==
    (procPc = "done" /\ procOp = "load") =>
        /\ ~loadFile.present => procError = "FileNotFoundError"
        /\ (loadFile.present /\ ~RecognisedSuffix(loadFile.suffix)) =>
              procError = "ValueError"
        /\ (\E k \in DOMAIN procCalls : procCalls[k] = "Image.open") <=>
              (loadFile.present /\ RecognisedSuffix(loadFile.suffix))
        /\ (loadFile.present /\ RecognisedSuffix(loadFile.suffix)) =>
              procError \notin {"FileNotFoundError", "ValueError"}

\* load_image has opened an existing file whose extension is in capitals.
C19_Witness ==
    /\ procPc = "done" /\ procOp = "load"
    /\ loadFile.present /\ loadFile.suffix = ".PNG"
    /\ procCalls = <<"Image.open">>

\* C20: a batch run over an existing input directory without any recognised
\* image file fails with an error: process_directory raises, and the
\* command line ends with exit code 1.
C20_EmptyBatchFails ==
    (dirExists /\ FindImageFilesUnsorted(dirListing) = {}) =>
        /\ pc # "batch_returned"
        /\ pc = "batch_raised" => raisedExc # "none"
        /\ (pc = "exited" /\ command = "batch") => exitCode = 1

\* The output path names a JPEG file.
JpegPath == Lower(outSuffix) \in {".jpg", ".jpeg"}

\* A pixel composited onto a white background, in a mode without alpha.
OnWhite(pixel) == <<PasteOnWhite(pixel[1], pixel[2]), 255>>

\* C21: whenever an image whose mode carries alpha (RGBA or LA) is saved to a
\* .jpg/.jpeg path, the image handed to the encoder has no alpha and is that
\* image flattened onto white, whichever command produced it; and for the
\* convert command this holds of the loaded image whatever format_type was
\* given.
C21_AlphaFlattenedForJpeg ==
    (JpegPath /\ piPc \in {"encode", "done"} /\ encMode # "none") =>
        /\ resMode \in AlphaModes =>
              encMode \notin AlphaModes /\ encPixel = OnWhite(resPixel)
        /\ (piName = "format" /\ srcMode \in AlphaModes) =>
              encMode \notin AlphaModes /\ encPixel = OnWhite(srcPixel)

\* The calls of save_image that create the output directory or write the
\* output file.
WritesOutput(call) == call \in {"os.makedirs", "image.save"}

\* C28: process_image writes output only after the processor has returned:
\* an unknown processor name raises before the input is loaded, and when the
\* loading of the input or the processor raises, nothing of save_image runs,
\* so that no output directory or file is created or overwritten.
C28_OutputOnlyAfterSuccess ==
    /\ (piName \notin processors /\ piPc # "start") =>
          piPc = "done" /\ piError = "ValueError" /\ piCalls = <<>>
    /\ \A k \in DOMAIN piCalls :
          WritesOutput(piCalls[k]) =>
              /\ k > 2
              /\ piCalls[1] = "load_image" /\ piCalls[2] = "processor.process"
              /\ LoadImage(piFile) = "none" /\ piArgsOK
              /\ resMode # "none"
    /\ (piPc = "done" /\ (LoadImage(piFile) # "none" \/ ~piArgsOK)) =>
          /\ piError # "none"
          /\ \A k \in DOMAIN piCalls : ~WritesOutput(piCalls[k])

\* process_image has ended in the error of a registered processor called on
\* a loaded input, and nothing of save_image has run.
C28_Witness ==
    /\ piPc = "done" /\ piError = "ValueError"
    /\ piName \in processors /\ LoadImage(piFile) = "none" /\ ~piArgsOK
    /\ piCalls = <<"load_image", "processor.process">>

\* C22: a transformation leaves the image objects passed to it unchanged:
\* while and after create_collage or create_contact_sheet run, every image of
\* the list the caller passed has the size it had at the call.
C22_InputsUnchanged ==
    layPc # "idle" => laySizes = layInput

\* C23: _find_image_files returns exactly the regular files of the directory
\* whose extension is, case-insensitively, one of the seven supported ones,
\* in ascending order, and the batch loop visits them in that order: at any
\* moment the files before the loop position have been processed once and
\* the others not yet.
C23_FilesSortedAndVisitedInOrder ==
    (pc = "batch_loop" \/ loopEntered) =>
        /\ \A i, j \in DOMAIN image_files : i < j => image_files[i] < image_files[j]
        /\ {image_files[i] : i \in DOMAIN image_files} =
              {n \in Names : /\ dirListing[n].present
                             /\ dirListing[n].is_file
                             /\ RecognisedSuffix(dirListing[n].suffix)}
        /\ \A i \in DOMAIN image_files :
              attempts[image_files[i]] = IF i < idx THEN 1 ELSE 0

\* The loop stands between two image files of a directory that also holds an
\* entry that is left out, one of the files having a capitalised extension.
C23_Witness ==
    /\ pc = "batch_loop" /\ idx = 2 /\ Len(image_files) = 2
    /\ \E i \in DOMAIN image_files : dirListing[image_files[i]].suffix = ".PNG"
    /\ \E n \in Names : dirListing[n].present /\ attempts[n] = 0
                        /\ \A i \in DOMAIN image_files : image_files[i] # n

\* The step of the smallest painted circle that contains pixel k.
SmallestCircle(k) ==
    CHOOSE i \in 0..(steps - 1) :
        Painted(k, i) /\ \A j \in 0..(i - 1) : ~Painted(k, j)

\* C25: after the 100 circles are painted the mask is a gradient: every pixel
\* that lies in some circle carries the alpha of the smallest painted circle
\* that contains it, so the centre carries 255 and the alpha does not grow
\* with the distance from the centre.
C25_MaskIsGradient ==
    (vigPc \in {"loop", "done"} /\ vigI >= steps) =>
        /\ mask[PixelIndex(imgW \div 2, imgH \div 2)] = 255
        /\ \A k \in DOMAIN mask :
              (\E i \in 0..(steps - 1) : Painted(k, i)) =>
                  mask[k] = VignetteAlpha(strength, SmallestCircle(k))

\* C27: on the clustering path each channel of each palette colour is the
\* centroid's coordinate rounded to the nearest integer (at most half a level
\* away from it), the colours in the order of the centroids.
C27_CentroidsRounded ==
    (palPc = "done" /\ palPath = "kmeans") =>
        /\ Len(palResult) = Len(cluster_centers)
        /\ \A i \in DOMAIN palResult : \A c \in 1..3 :
              Abs(10 * palResult[i][c] - cluster_centers[i][c]) <= 5

\* The image with sepia applied to each of its pixels.
SepiaOf(pixels) == [k \in DOMAIN pixels |-> SepiaPixel(pixels[k])]

\* C24: sepia is not idempotent: when the effect is applied to the image a
\* first application returned, the result is the sepia of that image, and
\* every pixel that was one of the sample colours other than black changes
\* again, so that sepia(sepia(p)) differs from sepia(p) for these p.
C24_SepiaNotIdempotent ==
    (pass = 2 /\ sepPc = "returned") =>
        /\ imgPixels = SepiaOf(callerPixels)
        /\ \A k \in DOMAIN imgPixels :
              (\E p \in SamplePixels \ {<<0, 0, 0>>} : callerPixels[k] = SepiaPixel(p))
                  => imgPixels[k] # callerPixels[k]

\* The second application has returned an image of several pixels that
\* differs from the one the first application returned.
C24_Witness ==
    /\ pass = 2 /\ sepPc = "returned"
    /\ Len(imgPixels) >= 2
    /\ imgPixels # callerPixels

\* C26 as stated: after EffectProcessor.process with 'sepia' has returned,
\* the image object the caller passed in holds the sepia values and is the
\* object that was returned.
C26_SepiaMutatesCallerImage ==
    sepPc = "returned" =>
        /\ aliased
        /\ CallerImage = SepiaOf(imgOrig)

\* C26: after EffectProcessor.process with 'sepia' has returned, the returned
\* image holds the sepia values of the input, it is another object than the
\* image the caller passed in, and that image still has the pixels it had at
\* the call; at no moment of the call have they changed.
C26_SepiaOnCopy ==
    /\ sepPc \in {"call", "loop", "done", "returned"} => CallerImage = imgOrig
    /\ sepPc = "returned" =>
          /\ ~aliased
          /\ imgPixels = SepiaOf(imgOrig)

\* process has returned for an image in which sepia changes some pixel.
C26_Witness ==
    /\ sepPc = "returned" /\ pass = 1
    /\ imgPixels # imgOrig
    /\ CallerImage = imgOrig

\* C29: every operation that can be selected in the GUI resolves, in
\* apply_operation_to_image, to a key registered in PillowCLI.processors, so
\* that the lookup of the processor fails for none of them, in the preview
\* or in process_image.
C29_OperationsResolve ==
    /\ guiKey # "none" => guiKey \in processors
    /\ guiError # "KeyError"
    /\ (guiPc = "done" /\ guiParamsOK) => guiCalls # <<"get_operation_parameters">>

\* C30: with width and height given and positive and maintain_aspect set,
\* the new size has 1 <= new_width <= width and 1 <= new_height <= height,
\* and one of the two equals the requested value, for every original size.
C30_AspectFitWithinBox ==
    (rszPc \in {"resize", "done"} /\ reqW >= 1 /\ reqH >= 1 /\ maintain_aspect) =>
        /\ 1 <= new_size[1] /\ new_size[1] <= reqW
        /\ 1 <= new_size[2] /\ new_size[2] <= reqH
        /\ new_size[1] = reqW \/ new_size[2] = reqH

====
